---- MODULE Spec2Model ----
(***************************************************************************)
(* Verification model of vscode-mlx-notebook: the document builder and     *)
(* parser (src/src/documentBuilder.ts, src/src/documentParser.ts), the     *)
(* output builder and parser (src/src/outputBuilder.ts,                    *)
(* src/src/outputParser.ts), parseMlx and the archive handling around      *)
(* them, and the command-line engine (src/src/engine/cliBackend.ts).       *)
(*                                                                         *)
(* A JavaScript string is a sequence of one-character strings.  XML text   *)
(* is kept at character level inside a text node (w:t), where escaping,    *)
(* entity decoding and CDATA scanning happen; the element structure above  *)
(* it (paragraphs, properties, runs) is kept as records.                   *)
(***************************************************************************)
EXTENDS Integers, Sequences, FiniteSets, TLC

VARIABLES
    pc,         \* position of the notebook session
    docXml,     \* body of matlab/document.xml that was opened
    cells,      \* the cell list held by the editing surface
    builtXml,   \* body produced by buildDocumentXml(cells)
    roundTrip,  \* parseDocument(builtXml)
    origin,     \* where cells came from: "none", "file" or "editor"
    docRoot,    \* root element of the document that was opened, and whether it has a body
    outCells,   \* cells annotated with execution outputs
    outXml,     \* result of buildOutputXml(outCells)
    readBack,   \* the cells read back from outXml: parseOutputs, then the attachment
    zpc,        \* position of the archive handling
    zip,        \* the archive that was loaded: entry name -> bytes
    savedZip,   \* the archive re-read after saving
    written,    \* the entry names the save wrote
    mpc,        \* position of a parseMlx call
    mlxArchive, \* the archive handed to parseMlx: its document and output entries
    mlxResult,  \* what parseMlx returned or threw
    mlxOutputMap, \* the map parseOutputs returned to parseMlx: region index -> outputs
    running,    \* CliBackend.running
    ready,      \* CliBackend.ready
    process,    \* CliBackend.process: 0 for null, or the number of the process spawned
    child,      \* the MATLAB processes spawned: state, prompt printed, path initialized, stdin
    starts,     \* the calls of start(): promise, onData attached, sentInit, resolved, timer
    stopTimer,  \* the processes that were current when a stop() set its kill timer, timer pending
    calls,      \* the calls of execute: promise, done flag, timer, listener, buffer, result
    figureDir,  \* the calls whose code left its figure files in figureDir
    pyRunning,  \* PythonEngine.running
    pyReady,    \* PythonEngine.ready
    pyProcess,  \* PythonEngine.process: 0 for null, 1 for the bridge process
    pyChild,    \* the bridge process: "none", "alive", "dead" or "closed"
    pyStart,    \* start() of PythonEngine: promise, readyReceived, timer
    pyStop,     \* stop() of PythonEngine: promise, its close listener, timer
    pyCalls,    \* the calls of PythonEngine.execute: promise, listener, timer
    engine,     \* the engine variable of extension.ts: 0 for undefined, or an engine object
    engines,    \* the engine objects created: state of the process, promise of start()
    handlers,   \* the invocations of the execute handler: position, engine executed on
    deactivated \* whether deactivate() was called

docVars == <<pc, docXml, cells, builtXml, roundTrip, origin, docRoot>>
outVars == <<outCells, outXml, readBack>>
mlxVars == <<mpc, mlxArchive, mlxResult, mlxOutputMap>>
engVars == <<running, ready, process, child, starts, stopTimer, calls, figureDir>>
zipVars == <<zpc, zip, savedZip, written>>
pyVars == <<pyRunning, pyReady, pyProcess, pyChild, pyStart, pyStop, pyCalls>>
ctlVars == <<engine, engines, handlers, deactivated>>
vars == <<pc, docXml, cells, builtXml, roundTrip, origin, docRoot, outCells, outXml, readBack,
          zpc, zip, savedZip, written, mpc, mlxArchive, mlxResult, mlxOutputMap,
          running, ready, process, child, starts, stopTimer, calls, figureDir,
          pyRunning, pyReady, pyProcess, pyChild, pyStart, pyStop, pyCalls,
          engine, engines, handlers, deactivated>>

----------------------------------------------------------------------------
(* Strings *)

NL == "\n"
ObjectObject == <<"[object Object]">>   \* String({...}) in JavaScript

IsPrefix(p, s) == Len(p) <= Len(s) /\ SubSeq(s, 1, Len(p)) = p

Drop(s, n) == SubSeq(s, n + 1, Len(s))

\* String.prototype.replace(/pat/g, rep) for a literal pattern
RECURSIVE ReplaceAll(_, _, _)
ReplaceAll(s, pat, rep) ==
    IF s = <<>> THEN <<>>
    ELSE IF IsPrefix(pat, s) THEN rep \o ReplaceAll(Drop(s, Len(pat)), pat, rep)
    ELSE <<Head(s)>> \o ReplaceAll(Tail(s), pat, rep)

\* String.prototype.split(sep) for a one-character separator
RECURSIVE SplitFrom(_, _, _)
SplitFrom(s, sep, cur) ==
    IF s = <<>> THEN <<cur>>
    ELSE IF Head(s) = sep THEN <<cur>> \o SplitFrom(Tail(s), sep, <<>>)
    ELSE SplitFrom(Tail(s), sep, Append(cur, Head(s)))

Split(s, sep) == SplitFrom(s, sep, <<>>)

\* Array.prototype.join(sep)
RECURSIVE Join(_, _)
Join(parts, sep) ==
    IF parts = <<>> THEN <<>>
    ELSE IF Len(parts) = 1 THEN parts[1]
    ELSE parts[1] \o sep \o Join(Tail(parts), sep)

\* The least element of a set of positive integers, 0 for the empty set
MinOrZero(S) == IF S = {} THEN 0 ELSE CHOOSE i \in S : \A j \in S : i <= j

IsSpace(c) == c \in {" ", "\t", "\n", "\r"}

\* String.prototype.trim() === ''
IsBlank(s) == \A i \in 1..Len(s) : IsSpace(s[i])

----------------------------------------------------------------------------
(* documentBuilder.ts *)

escapeXml(text) ==
    LET a == ReplaceAll(text, <<"&">>, <<"&", "a", "m", "p", ";">>)
        b == ReplaceAll(a, <<"<">>, <<"&", "l", "t", ";">>)
        c == ReplaceAll(b, <<">">>, <<"&", "g", "t", ";">>)
        d == ReplaceAll(c, <<"\"">>, <<"&", "q", "u", "o", "t", ";">>)
    IN  ReplaceAll(d, <<"'">>, <<"&", "a", "p", "o", "s", ";">>)

\* First k >= 1 with close at s[from + k ..], or 0: the lazy (.+?) of the pattern
LazyLen(s, from, close) ==
    MinOrZero({k \in 1..Len(s) :
                  /\ from + k + Len(close) - 1 <= Len(s)
                  /\ SubSeq(s, from + k, from + k + Len(close) - 1) = close})

\* Length of the maximal run of characters other than '*' starting at s[from]
RECURSIVE PlainLen(_, _)
PlainLen(s, from) ==
    IF from > Len(s) \/ s[from] = "*" THEN 0 ELSE 1 + PlainLen(s, from + 1)

\* The exec loop over /\*\*(.+?)\*\*|\*(.+?)\*|([^\*]+)/g from index i
RECURSIVE ExecRuns(_, _)
ExecRuns(s, i) ==
    IF i > Len(s) THEN <<>>
    ELSE LET kb == IF IsPrefix(<<"*", "*">>, Drop(s, i - 1))
                   THEN LazyLen(s, i + 2, <<"*", "*">>) ELSE 0
             ki == IF s[i] = "*" THEN LazyLen(s, i + 1, <<"*">>) ELSE 0
             kp == PlainLen(s, i)
         IN  IF kb > 0
             THEN <<[content |-> SubSeq(s, i + 2, i + 1 + kb), bold |-> TRUE, italic |-> FALSE]>>
                  \o ExecRuns(s, i + kb + 4)
             ELSE IF ki > 0
             THEN <<[content |-> SubSeq(s, i + 1, i + ki), bold |-> FALSE, italic |-> TRUE]>>
                  \o ExecRuns(s, i + ki + 2)
             ELSE IF kp > 0
             THEN <<[content |-> SubSeq(s, i, i + kp - 1), bold |-> FALSE, italic |-> FALSE]>>
                  \o ExecRuns(s, i + kp)
             ELSE ExecRuns(s, i + 1)

parseMarkdownRuns(text) ==
    LET runs == ExecRuns(text, 1)
    IN  IF Len(runs) > 0 THEN runs
        ELSE <<[content |-> text, bold |-> FALSE, italic |-> FALSE]>>

\* A w:t element: whether it exists, whether it carries attributes, and the
\* characters between its tags
TNode(attr, raw) == [present |-> TRUE, attr |-> attr, raw |-> raw]
NoT == [present |-> FALSE, attr |-> FALSE, raw |-> <<>>]

\* A w:r element: rPr says whether w:rPr exists, b and u its markers
Run(b, u, t) == [rPr |-> (b \/ u), b |-> b, u |-> u, t |-> t]

buildRun(text, bold, italic) == Run(bold, italic, TNode(TRUE, escapeXml(text)))

CdataOpen == <<"<", "!", "[", "C", "D", "A", "T", "A", "[">>
CdataEnd == <<"]", "]", ">">>

\* A w:p element: pStyle and mcStyle are "" when the style node is absent
Para(style, sect, mc, runs) ==
    [pStyle |-> style, sectPr |-> sect, mcStyle |-> mc, runs |-> runs]

escapeCdata(content) == ReplaceAll(content, CdataEnd, <<"]", "]">> \o CdataEnd \o CdataOpen \o <<">">>)

buildParagraph(content, style, isCodeLine) ==
    IF isCodeLine
    THEN Para(style, FALSE, "",
              <<Run(FALSE, FALSE, TNode(TRUE, CdataOpen \o escapeCdata(content) \o CdataEnd))>>)
    ELSE LET runs == parseMarkdownRuns(content)
         IN  Para(style, FALSE, "",
                  [i \in 1..Len(runs) |-> buildRun(runs[i].content, runs[i].bold, runs[i].italic)])

buildSectionBreak == Para("", TRUE, "", <<>>)

\* Mutant of getMarkupStyle: the heading levels are tested without the space
getMarkupStyleNoSpace(line) ==
    IF IsPrefix(<<"#", "#", "#">>, line) THEN "heading2"
    ELSE IF IsPrefix(<<"#", "#">>, line) THEN "heading"
    ELSE IF IsPrefix(<<"#">>, line) THEN "title"
    ELSE "text"

getMarkupStyle(line) ==
    IF IsPrefix(<<"#", " ">>, line) THEN "title"
    ELSE IF IsPrefix(<<"#", "#", " ">>, line) THEN "heading"
    ELSE IF IsPrefix(<<"#", "#", "#", " ">>, line) THEN "heading2"
    ELSE "text"

RECURSIVE CountWhile(_, _, _)
CountWhile(s, from, isHash) ==
    IF from > Len(s) THEN 0
    ELSE IF (isHash /\ s[from] = "#") \/ (~isHash /\ IsSpace(s[from]))
    THEN 1 + CountWhile(s, from + 1, isHash)
    ELSE 0

\* line.replace(/^#+\s+/, '')
removeHeadingMarker(line) ==
    LET h == CountWhile(line, 1, TRUE)
        w == CountWhile(line, h + 1, FALSE)
    IN  IF h > 0 /\ w > 0 THEN Drop(line, h + w) ELSE line

\* Mutant of buildMarkupLine: a blank line is treated like any other line
buildMarkupLineNoBlank(line) ==
    LET style == getMarkupStyle(line)
        content == IF style # "text" THEN removeHeadingMarker(line) ELSE line
    IN  buildParagraph(content, style, FALSE)

buildMarkupLine(line) ==
    IF IsBlank(line) THEN Para("text", FALSE, "", <<>>)
    ELSE LET style == getMarkupStyle(line)
             content == IF style # "text" THEN removeHeadingMarker(line) ELSE line
         IN  buildParagraph(content, style, FALSE)

buildCell(cell) ==
    LET lines == Split(cell.content, NL)
    IN  IF cell.kind = "code"
        THEN [i \in 1..Len(lines) |-> buildParagraph(lines[i], "code", TRUE)]
        ELSE [i \in 1..Len(lines) |-> buildMarkupLine(lines[i])]

\* Mutant of buildBody: previousKind is not tested against null
RECURSIVE buildBodyNoNullTest(_, _)
buildBodyNoNullTest(cs, previousKind) ==
    IF cs = <<>> THEN <<>>
    ELSE LET cell == Head(cs)
             brk == IF previousKind # cell.kind THEN <<buildSectionBreak>> ELSE <<>>
         IN  brk \o buildCell(cell) \o buildBodyNoNullTest(Tail(cs), cell.kind)

RECURSIVE buildBody(_, _)
buildBody(cs, previousKind) ==
    IF cs = <<>> THEN <<>>
    ELSE LET cell == Head(cs)
             brk == IF previousKind # "null" /\ previousKind # cell.kind
                    THEN <<buildSectionBreak>> ELSE <<>>
         IN  brk \o buildCell(cell) \o buildBody(Tail(cs), cell.kind)

buildDocumentXml(cs) == buildBody(cs, "null")

----------------------------------------------------------------------------
(* The XMLParser of documentParser.ts (fast-xml-parser with cdataPropName  *)
(* '__cdata', trimValues false, attributes kept, entities processed)       *)

\* Index of the first occurrence of pat in s at or after from, or 0
FindFrom(s, pat, from) ==
    MinOrZero({i \in from..Len(s) :
                  i + Len(pat) - 1 <= Len(s) /\ SubSeq(s, i, i + Len(pat) - 1) = pat})

\* Entity replacement of a text value: apos, gt, lt, quot first, amp last
replaceEntitiesValue(val) ==
    LET a == ReplaceAll(val, <<"&", "a", "p", "o", "s", ";">>, <<"'">>)
        b == ReplaceAll(a, <<"&", "g", "t", ";">>, <<">">>)
        c == ReplaceAll(b, <<"&", "l", "t", ";">>, <<"<">>)
        d == ReplaceAll(c, <<"&", "q", "u", "o", "t", ";">>, <<"\"">>)
    IN  ReplaceAll(d, <<"&", "a", "m", "p", ";">>, <<"&">>)

\* Scan of the characters inside a text node: every CDATA section becomes one
\* __cdata child (its characters taken raw, up to the first "]]>"), the
\* character data between them is entity-decoded and concatenated as #text
RECURSIVE ScanText(_, _, _)
ScanCdata(body, close, textData, acc) ==
    ScanText(IF close = 0 THEN <<>> ELSE Drop(body, close + Len(CdataEnd) - 1),
             <<>>,
             [cdata |-> Append(acc.cdata, IF close = 0 THEN body ELSE SubSeq(body, 1, close - 1)),
              text |-> acc.text \o replaceEntitiesValue(textData)])

ScanText(raw, textData, acc) ==
    IF raw = <<>>
    THEN [cdata |-> acc.cdata, text |-> acc.text \o replaceEntitiesValue(textData)]
    ELSE IF IsPrefix(CdataOpen, raw)
    THEN ScanCdata(Drop(raw, Len(CdataOpen)),
                   FindFrom(Drop(raw, Len(CdataOpen)), CdataEnd, 1), textData, acc)
    ELSE ScanText(Tail(raw), Append(textData, Head(raw)), acc)

\* The JavaScript value the parser leaves at run['w:t']:
\*   "undefined"  no w:t element
\*   "string"     a bare string (no attributes, no CDATA)
\*   "object"     cdata lists the __cdata children (one: a string, several: an
\*                array; none: no __cdata key), text is '#text' ("" when absent)
textNodeValue(attr, r) ==
    IF ~attr /\ r.cdata = <<>>
    THEN [typ |-> "string", cdata |-> <<>>, text |-> r.text]
    ELSE [typ |-> "object", cdata |-> r.cdata, text |-> r.text]

parseTextNode(t) ==
    IF ~t.present THEN [typ |-> "undefined", cdata |-> <<>>, text |-> <<>>]
    ELSE textNodeValue(t.attr, ScanText(t.raw, <<>>, [cdata |-> <<>>, text |-> <<>>]))

----------------------------------------------------------------------------
(* documentParser.ts *)

\* The body of getTextFromRun on the value t of run['w:t']
textOfValue(t) ==
    IF t.typ = "undefined" THEN <<>>
    ELSE IF t.typ = "string" THEN t.text
    ELSE IF Len(t.cdata) > 1 THEN Join(t.cdata, <<",">>)     \* String(array)
    ELSE IF Len(t.cdata) = 1 /\ t.cdata[1] # <<>> THEN t.cdata[1]
    ELSE IF t.text # <<>> THEN t.text
    ELSE ObjectObject

getTextFromRun(run) == textOfValue(parseTextNode(run.t))

wrapUnderline(underline, result) == IF underline THEN <<"*">> \o result \o <<"*">> ELSE result

\* The body of formatRun on the text of the run
formatText(run, text) ==
    IF text = <<>> THEN <<>>
    ELSE IF ~run.rPr THEN text
    ELSE wrapUnderline(run.u, IF run.b THEN <<"*", "*">> \o text \o <<"*", "*">> ELSE text)

formatRun(run) == formatText(run, getTextFromRun(run))

getStyle(p) ==
    IF p.pStyle # "" THEN p.pStyle
    ELSE IF p.mcStyle # "" THEN p.mcStyle
    ELSE "text"

getRuns(p) == p.runs

RECURSIVE Concat(_)
Concat(parts) == IF parts = <<>> THEN <<>> ELSE Head(parts) \o Concat(Tail(parts))

extractText(p) == Concat([i \in 1..Len(getRuns(p)) |-> formatRun(getRuns(p)[i])])

extractCode(p) == Concat([i \in 1..Len(getRuns(p)) |-> getTextFromRun(getRuns(p)[i])])

Cell(kind, content) == [kind |-> kind, content |-> content]

flushMarkup(cs, pendingMarkup) ==
    IF Len(pendingMarkup) > 0 THEN Append(cs, Cell("markup", Join(pendingMarkup, <<NL>>)))
    ELSE cs

\* Mutant of isSectionBreakOnly: no paragraph is skipped
isSectionBreakNever(p) == FALSE

\* w:sectPr with no style and no runs
isSectionBreakOnly(p) == p.sectPr /\ p.pStyle = "" /\ p.runs = <<>>

prefixLine(style, text) ==
    IF style = "title" THEN <<"#", " ">> \o text
    ELSE IF style = "heading" THEN <<"#", "#", " ">> \o text
    ELSE IF style = "heading2" THEN <<"#", "#", "#", " ">> \o text
    ELSE text

markupLine(p) == prefixLine(getStyle(p), extractText(p))

\* The loop over the paragraphs, then the final flush
RECURSIVE parseParagraphs(_, _, _)
parseParagraphs(ps, cs, pendingMarkup) ==
    IF ps = <<>> THEN flushMarkup(cs, pendingMarkup)
    ELSE LET p == Head(ps)
         IN  IF isSectionBreakOnly(p) THEN parseParagraphs(Tail(ps), cs, pendingMarkup)
             ELSE IF getStyle(p) = "code"
             THEN parseParagraphs(Tail(ps),
                                  Append(flushMarkup(cs, pendingMarkup), Cell("code", extractCode(p))),
                                  <<>>)
             ELSE parseParagraphs(Tail(ps), cs, Append(pendingMarkup, markupLine(p)))

\* Mutant of mergeCode: the cells are handed over as they were pushed
mergeCodeNone(cs, merged) == merged \o cs

\* Merge adjacent code cells
RECURSIVE mergeCode(_, _)
mergeCode(cs, merged) ==
    IF cs = <<>> THEN merged
    ELSE LET cell == Head(cs)
             n == Len(merged)
         IN  IF cell.kind = "code" /\ n > 0 /\ merged[n].kind = "code"
             THEN mergeCode(Tail(cs),
                            [merged EXCEPT ![n].content = @ \o <<NL>> \o cell.content])
             ELSE mergeCode(Tail(cs), Append(merged, cell))

parseDocument(body) == mergeCode(parseParagraphs(body, <<>>, <<>>), <<>>)

\* The parsed XML above the paragraphs: its root element, whether the root
\* has a w:body, and the w:p list of the body
DocumentRoot == "w:document"
XmlRoot(root, hasBody) == [root |-> root, hasBody |-> hasBody]
XmlDoc(root, hasBody, body) == [root |-> root, hasBody |-> hasBody, body |-> body]
NoRoot == XmlRoot("none", FALSE)

\* Mutant of parseDocumentXml: a document without body is an error
parseDocumentXmlStrict(xml, throws) ==
    IF xml.root # DocumentRoot \/ ~xml.hasBody THEN [threw |-> TRUE, cells |-> <<>>]
    ELSE [threw |-> FALSE, cells |-> parseDocument(xml.body)]

\* parseDocument from the XML text: parser.parse may throw on text that is
\* not XML (throws); without w:document or w:body, or without w:p, the
\* result is the empty list
parseDocumentXml(xml, throws) ==
    IF xml.root = "malformed" /\ throws THEN [threw |-> TRUE, cells |-> <<>>]
    ELSE IF xml.root # DocumentRoot \/ ~xml.hasBody THEN [threw |-> FALSE, cells |-> <<>>]
    ELSE IF xml.body = <<>> THEN [threw |-> FALSE, cells |-> <<>>]
    ELSE [threw |-> FALSE, cells |-> parseDocument(xml.body)]

----------------------------------------------------------------------------
(* outputBuilder.ts *)

NoBundle == [present |-> FALSE, outputs |-> <<>>, hasFigures |-> FALSE, figures |-> <<>>, text |-> <<>>]

\* CellOutputData: figures is optional, text is optional ("" is falsy too)
Bundle(outputs, hasFigures, figures, text) ==
    [present |-> TRUE, outputs |-> outputs, hasFigures |-> hasFigures, figures |-> figures, text |-> text]

MlxOutput(name, value, rows, columns) ==
    [name |-> name, value |-> value, rows |-> rows, columns |-> columns]

OutCell(kind, content, eo) == [kind |-> kind, content |-> content, executionOutputs |-> eo]

Element(type, od, uri, text) == [type |-> type, outputData |-> od, figureUri |-> uri, text |-> text]

DataUriPrefix == <<"data:image/png;base64,">>

variableElement(output) ==
    Element("variable",
            <<MlxOutput(escapeXml(output.name), escapeXml(output.value), output.rows, output.columns)>>,
            <<>>, <<>>)

figureElement(figure) == Element("figure", <<>>, DataUriPrefix \o figure, <<>>)

textElement(text) == Element("text", <<>>, <<>>, escapeXml(text))

\* The elements one code cell appends to outputElements
cellElements(cell) ==
    LET eo == cell.executionOutputs
    IN  IF ~eo.present THEN <<>>
        ELSE [n \in 1..Len(eo.outputs) |-> variableElement(eo.outputs[n])]
             \o (IF eo.hasFigures THEN [n \in 1..Len(eo.figures) |-> figureElement(eo.figures[n])]
                 ELSE <<>>)
             \o (IF eo.text # <<>> THEN <<textElement(eo.text)>> ELSE <<>>)

\* Mutant of cellRegions: the indices are attached to the first line
cellRegionsFirstLine(lineCount, cellOutputIndices) ==
    [i \in 1..lineCount |-> IF i = 1 /\ Len(cellOutputIndices) > 0 THEN cellOutputIndices ELSE <<>>]

\* The regions of one code cell: one per line, the indices on the last
cellRegions(lineCount, cellOutputIndices) ==
    [i \in 1..lineCount |->
        IF i = lineCount /\ Len(cellOutputIndices) > 0 THEN cellOutputIndices ELSE <<>>]

\* The loop over the cells; outputCounter is Len(acc.outputArray)
RECURSIVE buildOutputLoop(_, _, _)
buildOutputLoop(cs, outputCounter, acc) ==
    IF cs = <<>> THEN acc
    ELSE LET cell == Head(cs)
         IN  IF cell.kind = "code"
             THEN LET lineCount == Len(Split(cell.content, NL))
                      els == cellElements(cell)
                      cellOutputIndices == [n \in 1..Len(els) |-> outputCounter + n - 1]
                  IN  buildOutputLoop(Tail(cs), outputCounter + Len(els),
                                      [built |-> TRUE,
                                       outputArray |-> acc.outputArray \o els,
                                       regionArray |-> acc.regionArray
                                                       \o cellRegions(lineCount, cellOutputIndices)])
             ELSE buildOutputLoop(Tail(cs), outputCounter, acc)

NotBuilt == [built |-> FALSE, outputArray |-> <<>>, regionArray |-> <<>>]

\* Mutant of buildOutputXml: the counter starts at 1
buildOutputXmlFromOne(cs) ==
    buildOutputLoop(cs, 1, [built |-> TRUE, outputArray |-> <<>>, regionArray |-> <<>>])

buildOutputXml(cs) ==
    buildOutputLoop(cs, 0, [built |-> TRUE, outputArray |-> <<>>, regionArray |-> <<>>])

----------------------------------------------------------------------------
(* The output document as text, and outputParser.ts *)

DigitChars == <<"0", "1", "2", "3", "4", "5", "6", "7", "8", "9">>

\* `${n}` for a number n >= 0
RECURSIVE ToDecimal(_)
ToDecimal(n) ==
    IF n < 10 THEN <<DigitChars[n + 1]>>
    ELSE ToDecimal(n \div 10) \o <<DigitChars[(n % 10) + 1]>>

IsDigit(c) == \E d \in 1..10 : DigitChars[d] = c

DigitValue(c) == (CHOOSE d \in 1..10 : DigitChars[d] = c) - 1

\* String.prototype.trim()
RECURSIVE TrimStart(_)
TrimStart(s) == IF s # <<>> /\ IsSpace(Head(s)) THEN TrimStart(Tail(s)) ELSE s

RECURSIVE TrimEnd(_)
TrimEnd(s) ==
    IF s # <<>> /\ IsSpace(s[Len(s)]) THEN TrimEnd(SubSeq(s, 1, Len(s) - 1)) ELSE s

Trim(s) == TrimEnd(TrimStart(s))

\* parseInt(s, 10): leading whitespace is skipped, an optional sign is read,
\* then the value of the leading digits
Unsigned(t) == IF t # <<>> /\ Head(t) \in {"-", "+"} THEN Tail(t) ELSE t

RECURSIVE DigitsValue(_, _)
DigitsValue(s, acc) ==
    IF s = <<>> \/ ~IsDigit(Head(s)) THEN acc
    ELSE DigitsValue(Tail(s), 10 * acc + DigitValue(Head(s)))

parseInt(s) ==
    IF TrimStart(s) # <<>> /\ Head(TrimStart(s)) = "-"
    THEN 0 - DigitsValue(Unsigned(TrimStart(s)), 0)
    ELSE DigitsValue(Unsigned(TrimStart(s)), 0)

\* isNaN(parseInt(s, 10)): no digit after the whitespace and the sign
IsNaNText(s) == Unsigned(TrimStart(s)) = <<>> \/ ~IsDigit(Head(Unsigned(TrimStart(s))))

\* The value the XML parser gives to the text of a leaf element when
\* trimValues is true: trimmed, then entities decoded
trimmedValue(raw) == replaceEntitiesValue(Trim(raw))

\* An outputData element as text: rows and columns as written by `${...}`
OutputDataXml(od) ==
    [name |-> od.name, value |-> od.value, rows |-> ToDecimal(od.rows), columns |-> ToDecimal(od.columns)]

\* An element of outputArray as text
ElementXml(el) ==
    [type |-> el.type,
     outputData |-> [n \in 1..Len(el.outputData) |-> OutputDataXml(el.outputData[n])],
     figureUri |-> el.figureUri,
     text |-> el.text]

\* The document: root element, the element children of outputArray and the
\* outputIndexes of the element children of regionArray (absent arrays have
\* present = FALSE)
OutputsXml(root, hasOutputArray, elements, hasRegionArray, regions) ==
    [root |-> root,
     outputArray |-> [present |-> hasOutputArray, element |-> elements],
     regionArray |-> [present |-> hasRegionArray, element |-> regions]]

\* A region: whether it has outputIndexes, and the texts of its elements
RegionXml(hasIndexes, element) == [outputIndexes |-> [present |-> hasIndexes, element |-> element]]

\* The XML text buildOutputXml returns, as the document the parser sees
outputDocument(built) ==
    OutputsXml("embeddedOutputs",
               TRUE, [n \in 1..Len(built.outputArray) |-> ElementXml(built.outputArray[n])],
               TRUE, [n \in 1..Len(built.regionArray) |->
                         RegionXml(TRUE, [k \in 1..Len(built.regionArray[n]) |->
                                             ToDecimal(built.regionArray[n][k])])])

\* Mutant of extractIndexes: the entries are not filtered
extractIndexesUnfiltered(oi) ==
    IF ~oi.present THEN <<>>
    ELSE [n \in 1..Len(oi.element) |-> parseInt(oi.element[n])]

extractIndexes(oi) ==
    IF ~oi.present THEN <<>>
    ELSE [n \in 1..Len(SelectSeq(oi.element, LAMBDA t : ~IsNaNText(t))) |->
             parseInt(SelectSeq(oi.element, LAMBDA t : ~IsNaNText(t))[n])]

\* The branch of parseOutputs an element takes
elementBranch(el) ==
    IF el.type = "figure" /\ trimmedValue(el.figureUri) # <<>> THEN "figure"
    ELSE IF el.type = "text" /\ trimmedValue(el.text) # <<>> THEN "text"
    ELSE IF el.outputData # <<>> THEN "variable"
    ELSE "none"

parsedVariable(el) ==
    [type |-> IF el.type = "" THEN "variable" ELSE el.type,
     name |-> trimmedValue(el.outputData[1].name),
     value |-> trimmedValue(el.outputData[1].value),
     rows |-> parseInt(el.outputData[1].rows),
     columns |-> parseInt(el.outputData[1].columns)]

\* The elements a region names, in the order of its indexes
inRange(oi, length) == oi >= 0 /\ oi < length

regionElements(elements, outputIdxs) ==
    [n \in 1..Len(SelectSeq(outputIdxs, LAMBDA oi : inRange(oi, Len(elements)))) |->
        elements[SelectSeq(outputIdxs, LAMBDA oi : inRange(oi, Len(elements)))[n] + 1]]

regionOutputs(els) ==
    [variables |-> [n \in 1..Len(SelectSeq(els, LAMBDA el : elementBranch(el) = "variable")) |->
                       parsedVariable(SelectSeq(els, LAMBDA el : elementBranch(el) = "variable")[n])],
     figures |-> [n \in 1..Len(SelectSeq(els, LAMBDA el : elementBranch(el) = "figure")) |->
                     trimmedValue(SelectSeq(els, LAMBDA el : elementBranch(el) = "figure")[n].figureUri)],
     text |-> [n \in 1..Len(SelectSeq(els, LAMBDA el : elementBranch(el) = "text")) |->
                  trimmedValue(SelectSeq(els, LAMBDA el : elementBranch(el) = "text")[n].text)]]

hasOutputs(ro) == Len(ro.variables) > 0 \/ Len(ro.figures) > 0 \/ Len(ro.text) > 0

EmptyMap == [r \in {} |-> 0]

\* The map over the regions of the document, keyed by region index from 0
regionMap(elements, regions) ==
    [r \in {k \in 0..Len(regions) - 1 :
                hasOutputs(regionOutputs(regionElements(elements,
                                                        extractIndexes(regions[k + 1].outputIndexes))))} |->
        regionOutputs(regionElements(elements, extractIndexes(regions[r + 1].outputIndexes)))]

parseOutputs(xml) ==
    IF xml.root \notin {"embeddedOutputs", "outputData"} THEN EmptyMap
    ELSE IF ~xml.outputArray.present \/ xml.outputArray.element = <<>> THEN EmptyMap
    ELSE regionMap(xml.outputArray.element,
                   IF xml.regionArray.present THEN xml.regionArray.element ELSE <<>>)

----------------------------------------------------------------------------
(* The archive: parseMlx reads it, saving clones it and swaps entries *)

DocumentEntry == "matlab/document.xml"
OutputEntry == "matlab/output.xml"

DirNames == {"matlab/", "metadata/"}

EntryNames ==
    {DocumentEntry, OutputEntry, "[Content_Types].xml", "metadata/coreProperties.xml"}
    \cup DirNames

EmptyZip == [n \in {} |-> 0]

\* Object.keys(zip.files).filter(f => !f.endsWith('/'))
fileNames(z) == {n \in DOMAIN z : n \notin DirNames}

\* Mutant of zipFile: the entry is put into a fresh archive
zipFileFresh(z, name, data) == [n \in {name} |-> data]

\* JSZip file(name, data): sets the entry, keeps every other entry
zipFile(z, name, data) == [n \in DOMAIN z \cup {name} |-> IF n = name THEN data ELSE z[n]]

\* zip.file(name) !== null
hasFile(z, name) == name \in DOMAIN z

\* Save: the document entry is replaced, and the output entry when output
\* XML is written (out is <<>> or one value) and the archive holds the entry
saveMlx(z, doc, out) ==
    LET z1 == zipFile(z, DocumentEntry, doc)
    IN  IF out # <<>> /\ hasFile(z, OutputEntry) THEN zipFile(z1, OutputEntry, out[1]) ELSE z1

savedNames(z, out) ==
    IF out # <<>> /\ hasFile(z, OutputEntry) THEN {DocumentEntry, OutputEntry} ELSE {DocumentEntry}

----------------------------------------------------------------------------
(* parseMlx: the document entry, then the cached outputs by region *)

\* MlxCell; outputs, figures and textOutput are empty when they are not set
MlxCell(kind, content, outputs, figures, textOutput) ==
    [kind |-> kind, content |-> content, outputs |-> outputs, figures |-> figures,
     textOutput |-> textOutput]

\* A cell as parseDocument returns it
plainCell(cell) == MlxCell(cell.kind, cell.content, <<>>, <<>>, <<>>)

\* Mutant of cellSpan: only the region of the last line is read
cellSpanLastLine(regionIndex, lineCount) == <<regionIndex + lineCount - 1>>

\* The region indices regionIndex + i, i = 0 .. lineCount - 1, of a code cell
cellSpan(regionIndex, lineCount) == [i \in 1..lineCount |-> regionIndex + i - 1]

\* The regions of the span that the map holds, in order
spanRegions(outputMap, span) ==
    [n \in 1..Len(SelectSeq(span, LAMBDA r : r \in DOMAIN outputMap)) |->
        outputMap[SelectSeq(span, LAMBDA r : r \in DOMAIN outputMap)[n]]]

attachCell(cell, regions) ==
    MlxCell(cell.kind, cell.content,
            Concat([n \in 1..Len(regions) |-> regions[n].variables]),
            Concat([n \in 1..Len(regions) |-> regions[n].figures]),
            Join(Concat([n \in 1..Len(regions) |-> regions[n].text]), <<NL>>))

\* The loop over the cells with the running regionIndex
RECURSIVE attachOutputs(_, _, _)
attachOutputs(cs, outputMap, regionIndex) ==
    IF cs = <<>> THEN <<>>
    ELSE IF Head(cs).kind = "code"
    THEN <<attachCell(Head(cs),
                      spanRegions(outputMap,
                                  cellSpan(regionIndex, Len(Split(Head(cs).content, NL)))))>>
         \o attachOutputs(Tail(cs), outputMap, regionIndex + Len(Split(Head(cs).content, NL)))
    ELSE <<plainCell(Head(cs))>> \o attachOutputs(Tail(cs), outputMap, regionIndex)

\* The output entry: whether its text can be read, whether the XML parser
\* accepts it, and the document it holds
OutFile(readable, parses, xml) == [readable |-> readable, parses |-> parses, xml |-> xml]

NoOutFile == OutFile(FALSE, FALSE, OutputsXml("", FALSE, <<>>, FALSE, <<>>))

\* The archive as parseMlx sees it: the body of the document entry and the
\* output entry, each with whether the archive holds it
MlxArchive(hasDoc, doc, hasOut, out) ==
    [hasDoc |-> hasDoc, doc |-> doc, hasOut |-> hasOut, out |-> out]

NoArchive == MlxArchive(FALSE, <<>>, FALSE, NoOutFile)

MissingDocumentError == <<"Invalid .mlx file: missing ", DocumentEntry>>

MlxResult(threw, error, cs) == [threw |-> threw, error |-> error, cells |-> cs]

NoResult == MlxResult(FALSE, <<>>, <<>>)

\* The cells of the document, without outputs
documentCells(doc) ==
    [n \in 1..Len(parseDocumentXml(XmlDoc(DocumentRoot, TRUE, doc), FALSE).cells) |->
        plainCell(parseDocumentXml(XmlDoc(DocumentRoot, TRUE, doc), FALSE).cells[n])]

\* Mutant of parseMlxOutputs: a failure of the output entry fails the parse
parseMlxOutputsNoCatch(cs, out) ==
    IF out.readable /\ out.parses
    THEN MlxResult(FALSE, <<>>, attachOutputs(cs, parseOutputs(out.xml), 0))
    ELSE MlxResult(TRUE, <<"output">>, <<>>)

\* The try block of parseMlx: reading the entry or parsing it may throw, and
\* the catch leaves the cells as they are
parseMlxOutputs(cs, out) ==
    IF out.readable /\ out.parses
    THEN MlxResult(FALSE, <<>>, attachOutputs(cs, parseOutputs(out.xml), 0))
    ELSE MlxResult(FALSE, <<>>, cs)

\* The map parseMlx holds after its try block: empty unless the output entry
\* was read and parsed
parsedOutputMap(archive) ==
    IF archive.hasDoc /\ archive.hasOut /\ archive.out.readable /\ archive.out.parses
    THEN parseOutputs(archive.out.xml)
    ELSE EmptyMap

\* Mutant of parseMlx: a missing document entry gives an empty notebook
parseMlxLenient(archive) ==
    IF ~archive.hasDoc THEN MlxResult(FALSE, <<>>, <<>>)
    ELSE IF archive.hasOut THEN parseMlxOutputs(documentCells(archive.doc), archive.out)
    ELSE MlxResult(FALSE, <<>>, documentCells(archive.doc))

parseMlx(archive) ==
    IF ~archive.hasDoc THEN MlxResult(TRUE, MissingDocumentError, <<>>)
    ELSE IF archive.hasOut THEN parseMlxOutputs(documentCells(archive.doc), archive.out)
    ELSE MlxResult(FALSE, <<>>, documentCells(archive.doc))

----------------------------------------------------------------------------
(* Bounded inputs of the document pipeline *)

MaxSpans == 3    \* pieces of a generated line
MaxLines == 4    \* lines of a generated multi-line cell
MaxCells == 3    \* cells of a generated multi-cell notebook
MaxRuns == 2     \* runs of a generated multi-run paragraph
MaxParas == 3    \* paragraphs of a generated multi-paragraph document

SeqsOf(S, lo, hi) == UNION {[1..k -> S] : k \in lo..hi}

Bold(s) == <<"*", "*">> \o s \o <<"*", "*">>
Italic(s) == <<"*">> \o s \o <<"*">>
LtEntity == <<"&", "l", "t", ";">>

MarkupPieces ==
    {<<"a">>, <<" ">>, <<"*">>, <<"#">>, Bold(<<"a">>), Italic(<<"a">>), LtEntity, <<"<">>}

CodePieces == {<<"a">>, CdataEnd, <<"]">>, <<">">>, LtEntity}

HeadingPrefixes == {<<>>, <<"#", " ">>, <<"#", "#", " ">>, <<"#", "#", "#", " ">>}

MarkupLines ==
    {p \o Concat(b) : p \in HeadingPrefixes, b \in SeqsOf(MarkupPieces, 0, MaxSpans)}

CodeLines == {Concat(b) : b \in SeqsOf(CodePieces, 0, MaxSpans)}

SmallMarkupLines ==
    {<<>>, <<" ">>, <<"a">>, <<"#", " ", "a">>, <<"#", "#", " ", "a">>, <<"#", "#", "#", " ", "a">>}
SmallCodeLines == {<<>>, <<"a">>, CdataEnd}

TinyCells ==
    {Cell("markup", <<"a">>), Cell("markup", <<" ", NL, "a">>),
     Cell("code", <<"a">>), Cell("code", <<"a", NL>>)}

\* The cell lists the editing surface hands over for a new notebook
NotebookCells ==
    {<<Cell("markup", l)>> : l \in MarkupLines}
    \cup {<<Cell("code", l)>> : l \in CodeLines}
    \cup {<<Cell("markup", Join(ls, <<NL>>))>> : ls \in SeqsOf(SmallMarkupLines, 2, MaxLines)}
    \cup {<<Cell("code", Join(ls, <<NL>>))>> : ls \in SeqsOf(SmallCodeLines, 2, MaxLines)}
    \cup SeqsOf(TinyCells, 2, MaxCells)

Cdata(s) == CdataOpen \o s \o CdataEnd

RawTexts ==
    {<<>>, <<"a">>, <<" ">>, <<"#", " ", "a">>, <<"*", "a">>, LtEntity,
     Cdata(<<>>), Cdata(<<"a">>), <<"a">> \o Cdata(<<"b">>), Cdata(<<"a">>) \o Cdata(<<"b">>)}

TNodes == {NoT} \cup {TNode(attr, raw) : attr \in BOOLEAN, raw \in RawTexts}

RichRuns == {Run(b, u, t) : b \in BOOLEAN, u \in BOOLEAN, t \in TNodes}

StyleNames == {"", "code", "title", "heading", "heading2", "text"}

SmallRuns ==
    {Run(FALSE, FALSE, TNode(TRUE, <<"a">>)), Run(TRUE, FALSE, TNode(TRUE, <<"a">>)),
     Run(FALSE, TRUE, TNode(FALSE, <<"b">>)), Run(FALSE, FALSE, TNode(FALSE, Cdata(<<"a">>)))}

SmallParas ==
    {buildSectionBreak,
     Para("code", FALSE, "", <<Run(FALSE, FALSE, TNode(FALSE, Cdata(<<"a">>)))>>),
     Para("code", FALSE, "", <<Run(FALSE, FALSE, TNode(FALSE, <<>>))>>),
     Para("text", FALSE, "", <<Run(FALSE, FALSE, TNode(FALSE, <<"a">>))>>),
     Para("title", FALSE, "", <<Run(FALSE, FALSE, TNode(FALSE, <<"a">>))>>),
     Para("text", FALSE, "", <<>>),
     Para("", FALSE, "", <<Run(FALSE, FALSE, TNode(FALSE, <<"a">>))>>)}

\* Documents without a readable body: another root element, a document
\* without w:body, text that is not XML
OddRoots ==
    {XmlRoot("html", FALSE), XmlRoot("html", TRUE), XmlRoot(DocumentRoot, FALSE),
     XmlRoot("malformed", FALSE)}

\* The bodies of the documents that are opened
InputDocs ==
    {<<>>}
    \cup {<<Para(s, sect, mc, rs)>> :
             s \in StyleNames, sect \in BOOLEAN, mc \in {"", "code"},
             rs \in SeqsOf(RichRuns, 0, 1)}
    \cup {<<Para(s, FALSE, "", rs)>> :
             s \in {"text", "title", "code"}, rs \in SeqsOf(SmallRuns, 2, MaxRuns)}
    \cup SeqsOf(SmallParas, 2, MaxParas)

----------------------------------------------------------------------------
(* The notebook session: open or create, save, reopen *)

NotRead == [done |-> FALSE, cells |-> <<>>]

MaxCalls == 2   \* calls of execute

MaxStarts == 2  \* calls of start() that spawn a process

\* A call of execute: its promise ("none" before the call, "refused" when the
\* started check threw, then "pending", "resolved" or "rejected"), the done
\* flag, whether its timer is pending, the process on whose stdout onStdout
\* is attached (0 for none), the calls whose output is in its stdout buffer,
\* and the output and figures it resolved with
Call(promise, done, timer, listening) ==
    [promise |-> promise, done |-> done, timer |-> timer, listening |-> listening,
     buffer |-> {}, stdout |-> {}, figures |-> {}]

NoCall == Call("none", FALSE, FALSE, 0)

\* A MATLAB process: "none" before the spawn, "alive", "failed" when it could
\* not be spawned, "dead" once it has exited or was killed, "closed" once
\* its close event was handled; whether
\* it has printed its first prompt, whether it has run the initialization
\* command, the commands written to its stdin that it has not yet run, and
\* whether stop() was called while it was this.process
Child(state, prompted, inited, stdin) ==
    [state |-> state, prompted |-> prompted, inited |-> inited, stdin |-> stdin,
     stopped |-> FALSE]

NoChild == Child("none", FALSE, FALSE, <<>>)

\* The closure of one start(): its promise, whether onData is attached to
\* the stdout of its process, sentInit, resolved, the startup timer
StartCall(promise, attached, sentInit, resolved, timer) ==
    [promise |-> promise, attached |-> attached, sentInit |-> sentInit,
     resolved |-> resolved, timer |-> timer]

NoStart == StartCall("none", FALSE, FALSE, FALSE, FALSE)

\* start() of PythonEngine: its promise, readyReceived, the startup timer
PyStartCall(promise, readyReceived, timer) ==
    [promise |-> promise, readyReceived |-> readyReceived, timer |-> timer]

NoPyStart == PyStartCall("none", FALSE, FALSE)

\* stop() of PythonEngine: its promise, whether its onClose waits for the
\* close event, the kill timer
PyStopCall(promise, listening, timer) ==
    [promise |-> promise, listening |-> listening, timer |-> timer]

NoPyStop == PyStopCall("none", FALSE, FALSE)

\* A call of PythonEngine.execute: its promise, whether onStdout is
\* attached, resultReceived, the timer
PyCall(promise, listening, resultReceived, timer) ==
    [promise |-> promise, listening |-> listening, resultReceived |-> resultReceived,
     timer |-> timer]

NoPyCall == PyCall("none", FALSE, FALSE, FALSE)

MaxHandlers == 2   \* invocations of the execute handler

\* An engine object of the controller: "none" before createEngine, "starting"
\* while start() is in flight, "ready" while isRunning(), "failed" when
\* start() rejected, "closed" when its process closed, "stopped" after stop();
\* and the promise of its start()
Engine(state, start) == [state |-> state, start |-> start]

NoEngine == Engine("none", "none")

\* An invocation of the execute handler: "idle", "starting" (awaiting
\* engine.start()), "execute" (before engine.execute), "executing" (awaiting
\* it), "done" or "failed"; and the engine object execute was called on
Handler(hpc, on) == [pc |-> hpc, on |-> on]

NoHandler == Handler("idle", 0)

\* What is written to stdin: the initialization command, the wrapped code of a call
InitCommand == [cmd |-> "init", call |-> 0]
CodeCommand(c) == [cmd |-> "code", call |-> c]

DocIdle ==
    /\ pc = "idle"
    /\ docXml = <<>>
    /\ cells = <<>>
    /\ builtXml = <<>>
    /\ roundTrip = <<>>
    /\ origin = "none"
    /\ docRoot = NoRoot

OutIdle == outCells = <<>> /\ outXml = NotBuilt /\ readBack = NotRead

ZipIdle == zpc = "idle" /\ zip = EmptyZip /\ savedZip = EmptyZip /\ written = {}

MlxIdle ==
    mpc = "idle" /\ mlxArchive = NoArchive /\ mlxResult = NoResult /\ mlxOutputMap = EmptyMap

\* CliBackend after construction, no call of execute made
EngIdle ==
    /\ running = FALSE
    /\ ready = FALSE
    /\ process = 0
    /\ child = [k \in 1..MaxStarts |-> NoChild]
    /\ starts = [k \in 1..MaxStarts |-> NoStart]
    /\ stopTimer = {}
    /\ calls = [c \in 1..MaxCalls |-> NoCall]
    /\ figureDir = {}

\* PythonEngine after construction
PyIdle ==
    /\ pyRunning = FALSE
    /\ pyReady = FALSE
    /\ pyProcess = 0
    /\ pyChild = "none"
    /\ pyStart = NoPyStart
    /\ pyStop = NoPyStop
    /\ pyCalls = [c \in 1..MaxCalls |-> NoPyCall]

\* extension.ts after activate()
CtlIdle ==
    /\ engine = 0
    /\ engines = [e \in 1..MaxHandlers |-> NoEngine]
    /\ handlers = [h \in 1..MaxHandlers |-> NoHandler]
    /\ deactivated = FALSE

Init == DocIdle /\ OutIdle /\ ZipIdle /\ MlxIdle /\ EngIdle /\ PyIdle /\ CtlIdle

\* deserializeNotebook: parseMlx hands the document entry to parseDocument
Open ==
    /\ pc = "idle"
    /\ \E d \in InputDocs :
          /\ docXml' = d
          /\ docRoot' = XmlRoot(DocumentRoot, TRUE)
          /\ cells' = parseDocumentXml(XmlDoc(DocumentRoot, TRUE, d), FALSE).cells
    /\ pc' = "open"
    /\ origin' = "file"
    /\ UNCHANGED <<builtXml, roundTrip, outVars, zipVars, mlxVars, engVars, pyVars, ctlVars>>

\* The same on a document entry that is not a document with a body: another
\* root, no w:body, or text the XML parser cannot read (it throws or not)
OpenOdd ==
    /\ pc = "idle"
    /\ \E r \in OddRoots : \E throws \in BOOLEAN :
          /\ docRoot' = r
          /\ cells' = parseDocumentXml(XmlDoc(r.root, r.hasBody, <<>>), throws).cells
          /\ pc' = IF parseDocumentXml(XmlDoc(r.root, r.hasBody, <<>>), throws).threw
                    THEN "failed" ELSE "open"
    /\ docXml' = <<>>
    /\ origin' = "file"
    /\ UNCHANGED <<builtXml, roundTrip, outVars, zipVars, mlxVars, engVars, pyVars, ctlVars>>

\* The editing surface fills a new notebook with cells
NewNotebook ==
    /\ pc = "idle"
    /\ \E cs \in NotebookCells : cells' = cs
    /\ pc' = "open"
    /\ origin' = "editor"
    /\ UNCHANGED <<docXml, docRoot, builtXml, roundTrip, outVars, zipVars, mlxVars, engVars, pyVars, ctlVars>>

\* Saving regenerates the document body from the cells
Save ==
    /\ pc = "open"
    /\ pc' = "saved"
    /\ builtXml' = buildDocumentXml(cells)
    /\ UNCHANGED <<docXml, docRoot, cells, roundTrip, origin, outVars, zipVars, mlxVars, engVars, pyVars, ctlVars>>

\* The saved document is parsed again
Reopen ==
    /\ pc = "saved"
    /\ pc' = "reopened"
    /\ roundTrip' = parseDocument(builtXml)
    /\ UNCHANGED <<docXml, docRoot, cells, builtXml, origin, outVars, zipVars, mlxVars, engVars, pyVars, ctlVars>>

Next ==
    \/ Open
    \/ OpenOdd
    \/ NewNotebook
    \/ Save
    \/ Reopen

Spec == Init /\ [][Next]_vars

----------------------------------------------------------------------------
(* Vocabulary of the properties *)

Built == pc \in {"saved", "reopened"}

Lines(cell) == Split(cell.content, NL)

Kinds(cs) == [i \in 1..Len(cs) |-> cs[i].kind]

\* Pairs of consecutive cells whose kinds differ, up to cell i
RECURSIVE Transitions(_, _)
Transitions(cs, i) ==
    IF i <= 1 THEN 0
    ELSE Transitions(cs, i - 1) + (IF cs[i].kind # cs[i - 1].kind THEN 1 ELSE 0)

RECURSIVE LinesBefore(_, _)
LinesBefore(cs, i) ==
    IF i <= 1 THEN 0 ELSE LinesBefore(cs, i - 1) + Len(Lines(cs[i - 1]))

\* Index in the built body of the paragraph of line j of cell i
ParaIndex(cs, i, j) == LinesBefore(cs, i) + Transitions(cs, i) + j

IsBreakPara(p) == p.sectPr /\ p.pStyle = "" /\ p.runs = <<>>

Alternating(cs) == \A i \in 2..Len(cs) : cs[i].kind # cs[i - 1].kind

Contains(s, pat) == FindFrom(s, pat, 1) > 0

SameCells(a, b) ==
    /\ Len(a) = Len(b)
    /\ \A i \in 1..Len(a) : a[i].kind = b[i].kind /\ a[i].content = b[i].content

----------------------------------------------------------------------------
(* C1 - C8: document builder and parser *)

\* C1: a cell list that parseDocument returned for a document comes back from
\* parseDocument(buildDocumentXml(cells)) with the same length and, position
\* by position, the same kind and content.
C1_RoundTripIdentity ==
    (pc = "reopened" /\ origin = "file") => SameCells(roundTrip, cells)

\* C2: a code cell whose lines contain "]]>" is built so that the text node
\* is not closed early (one run, one text node per line) and parses back to
\* a code cell with exactly the original content.
C2_CdataTerminatorRoundTrip ==
    (/\ pc = "reopened"
     /\ Len(cells) = 1
     /\ cells[1].kind = "code"
     /\ Contains(cells[1].content, CdataEnd))
    => /\ \A k \in 1..Len(builtXml) : Len(builtXml[k].runs) = 1
       /\ SameCells(roundTrip, cells)

\* C3: a code cell of k newline-separated lines (empty lines included) is
\* built as exactly k paragraphs styled code, and parsing them gives back one
\* code cell with the original content.
C3_LineCountPreservation ==
    (Built /\ Len(cells) = 1 /\ cells[1].kind = "code")
    => /\ Len(builtXml) = Len(Lines(cells[1]))
       /\ \A k \in 1..Len(builtXml) : builtXml[k].pStyle = "code"
       /\ pc = "reopened" => SameCells(roundTrip, cells)

\* C4: the built body holds a section-break paragraph exactly in front of
\* every cell whose kind differs from the kind of the cell before it, and
\* nowhere else; so as many breaks as kind changes, none before the first cell.
C4_SectionBreaks ==
    Built =>
        {k \in 1..Len(builtXml) : IsBreakPara(builtXml[k])}
        = {ParaIndex(cells, i, 1) - 1 : i \in {j \in 2..Len(cells) : cells[j].kind # cells[j - 1].kind}}

C4_Witness ==
    /\ pc = "saved"
    /\ Kinds(cells) = <<"markup", "code", "markup">>
    /\ Cardinality({k \in 1..Len(builtXml) : IsBreakPara(builtXml[k])}) = 2

\* C5: a document of paragraphs styled title, heading, heading2 or text is
\* parsed into markup lines from which buildDocumentXml emits, paragraph by
\* paragraph, the style the document had.
C5_StyleInvertible ==
    (/\ Built
     /\ origin = "file"
     /\ docXml # <<>>
     /\ \A k \in 1..Len(docXml) :
           ~IsBreakPara(docXml[k]) /\ getStyle(docXml[k]) \in {"title", "heading", "heading2", "text"})
    => /\ Len(builtXml) = Len(docXml)
       /\ \A k \in 1..Len(docXml) : builtXml[k].pStyle = getStyle(docXml[k])

\* The style a line asks for by its prefix
PrefixStyle(line) ==
    IF Len(line) >= 2 /\ SubSeq(line, 1, 2) = <<"#", " ">> THEN "title"
    ELSE IF Len(line) >= 3 /\ SubSeq(line, 1, 3) = <<"#", "#", " ">> THEN "heading"
    ELSE IF Len(line) >= 4 /\ SubSeq(line, 1, 4) = <<"#", "#", "#", " ">> THEN "heading2"
    ELSE "text"

\* C6: every line of a markup cell becomes one paragraph, in line order, and
\* a non-blank line is styled title for "# ", heading for "## ", heading2 for
\* "### " and text otherwise.
C6_MarkupStyles ==
    Built =>
        \A i \in 1..Len(cells) :
            cells[i].kind = "markup" =>
                \A j \in 1..Len(Lines(cells[i])) :
                    LET line == Lines(cells[i])[j]
                        k == ParaIndex(cells, i, j)
                    IN  /\ k <= Len(builtXml)
                        /\ ~IsBreakPara(builtXml[k])
                        /\ ~IsBlank(line) => builtXml[k].pStyle = PrefixStyle(line)

C6_Witness ==
    /\ pc = "saved"
    /\ Len(cells) = 1
    /\ cells[1].kind = "markup"
    /\ Lines(cells[1]) = <<<<"#", " ", "a">>, <<"#", "#", " ", "a">>, <<"#", "#", "#", " ", "a">>, <<"a">>>>
    /\ [k \in 1..Len(builtXml) |-> builtXml[k].pStyle] = <<"title", "heading", "heading2", "text">>

\* Spans of a line: plain, bold and italic, their contents without '*'
Span(kind, content) == [kind |-> kind, content |-> content]

SpanVocabulary ==
    {Span("plain", <<"a">>), Span("plain", <<" ">>), Span("plain", <<" ", "a">>),
     Span("plain", LtEntity), Span("bold", <<"a">>), Span("italic", <<"a">>)}

RenderSpan(sp) ==
    IF sp.kind = "bold" THEN Bold(sp.content)
    ELSE IF sp.kind = "italic" THEN Italic(sp.content)
    ELSE sp.content

RenderSpans(sps) == Concat([n \in 1..Len(sps) |-> RenderSpan(sps[n])])

\* Span lists whose plain spans are maximal (no two plain spans in a row)
SpanLists ==
    {sps \in SeqsOf(SpanVocabulary, 1, MaxSpans) :
        \A n \in 2..Len(sps) : ~(sps[n].kind = "plain" /\ sps[n - 1].kind = "plain")}

\* C7: a non-blank markup line made of an optional heading prefix followed by
\* plain, bold and italic spans is built as one run per span in order, bold
\* spans with the bold marker only and italic spans with the underline marker
\* only, and parses back to the identical line.
C7_SpansRoundTrip ==
    (pc = "reopened" /\ Len(cells) = 1 /\ cells[1].kind = "markup")
    => \A sps \in SpanLists : \A prefix \in HeadingPrefixes :
           (cells[1].content = prefix \o RenderSpans(sps) /\ ~IsBlank(cells[1].content))
           => /\ Len(builtXml) = 1
              /\ Len(builtXml[1].runs) = Len(sps)
              /\ \A n \in 1..Len(sps) :
                    /\ builtXml[1].runs[n].b = (sps[n].kind = "bold")
                    /\ builtXml[1].runs[n].u = (sps[n].kind = "italic")
              /\ SameCells(roundTrip, cells)

\* C8: a blank line of a markup cell is built as its own paragraph styled
\* text without runs, and the markup cell parsed back has as many lines as
\* the original with an empty line at the position of every blank line.
C8_BlankLineKept ==
    (pc = "reopened" /\ Alternating(cells)) =>
        /\ Len(roundTrip) = Len(cells)
        /\ \A i \in 1..Len(cells) :
              cells[i].kind = "markup" =>
                  /\ roundTrip[i].kind = "markup"
                  /\ Len(Lines(roundTrip[i])) = Len(Lines(cells[i]))
                  /\ \A j \in 1..Len(Lines(cells[i])) :
                        IsBlank(Lines(cells[i])[j]) =>
                            /\ builtXml[ParaIndex(cells, i, j)].pStyle = "text"
                            /\ builtXml[ParaIndex(cells, i, j)].runs = <<>>
                            /\ ~builtXml[ParaIndex(cells, i, j)].sectPr
                            /\ Lines(roundTrip[i])[j] = <<>>

C8_Witness ==
    /\ pc = "reopened"
    /\ Len(cells) = 1
    /\ cells[1].kind = "markup"
    /\ Lines(cells[1]) = <<<<"a">>, <<>>, <<"a">>>>
    /\ [k \in 1..Len(builtXml) |-> builtXml[k].pStyle] = <<"text", "text", "text">>
    /\ Lines(roundTrip[1]) = <<<<"a">>, <<>>, <<"a">>>>

----------------------------------------------------------------------------
(* The output builder on its own *)

MaxOutCells == 2   \* cells of a notebook with execution outputs

VarX == MlxOutput(<<"x">>, <<"1">>, 1, 1)
VarM == MlxOutput(<<"m">>, <<"1", " ", "2">>, 2, 1)
VarS == MlxOutput(<<"s">>, <<" ", "1">>, 1, 1)   \* a value as MATLAB displays it, indented

Bundles ==
    {NoBundle}
    \cup {Bundle(vs, hf, IF hf THEN <<<<"f">>>> ELSE <<>>, t) :
             vs \in {<<>>, <<VarX>>, <<VarX, VarM>>, <<VarS>>},
             hf \in BOOLEAN, t \in {<<>>, <<"t">>}}

CodeOfLines(n) == Join([i \in 1..n |-> <<"a">>], <<NL>>)

OutCellVocabulary ==
    {OutCell("code", CodeOfLines(n), b) : n \in 1..MaxLines - 1, b \in Bundles}
    \cup {OutCell("markup", <<"a">>, b) : b \in {NoBundle, Bundle(<<VarX>>, FALSE, <<>>, <<"t">>)}}

OutNotebooks == SeqsOf(OutCellVocabulary, 1, MaxOutCells)

\* The cells of the notebook with the results of their executions
Executed ==
    /\ outCells = <<>>
    /\ ~outXml.built
    /\ \E cs \in OutNotebooks : outCells' = cs
    /\ UNCHANGED <<outXml, readBack, docVars, zipVars, mlxVars, engVars, pyVars, ctlVars>>

BuildOutput ==
    /\ ~outXml.built
    /\ outXml' = buildOutputXml(outCells)
    /\ UNCHANGED <<outCells, readBack, docVars, zipVars, mlxVars, engVars, pyVars, ctlVars>>

\* The output entry is read back: parseOutputs, then the attachment of parseMlx
ReadBack ==
    /\ outXml.built
    /\ ~readBack.done
    /\ readBack' = [done |-> TRUE,
                    cells |-> attachOutputs(outCells, parseOutputs(outputDocument(outXml)), 0)]
    /\ UNCHANGED <<outCells, outXml, docVars, zipVars, mlxVars, engVars, pyVars, ctlVars>>

InitOut == DocIdle /\ OutIdle /\ ZipIdle /\ MlxIdle /\ EngIdle /\ PyIdle /\ CtlIdle

NextOut ==
    \/ Executed
    \/ BuildOutput
    \/ ReadBack

SpecOut == InitOut /\ [][NextOut]_vars

----------------------------------------------------------------------------
(* The archive on its own *)

MaxByte == 1   \* entry contents are 0..MaxByte

Bytes == 0..MaxByte

Archives == UNION {[S -> Bytes] : S \in SUBSET EntryNames}

\* parseMlx: loads the archive and fails when the document entry is missing
LoadArchive ==
    /\ zpc = "idle"
    /\ \E z \in Archives :
          /\ zip' = z
          /\ zpc' = IF hasFile(z, DocumentEntry) THEN "loaded" ELSE "failed"
    /\ UNCHANGED <<savedZip, written, docVars, outVars, mlxVars, engVars, pyVars, ctlVars>>

SaveArchive(doc, out) ==
    /\ zpc = "loaded"
    /\ zpc' = "saved"
    /\ savedZip' = saveMlx(zip, doc, out)
    /\ written' = savedNames(zip, out)
    /\ UNCHANGED <<zip, docVars, outVars, mlxVars, engVars, pyVars, ctlVars>>

InitZip == DocIdle /\ OutIdle /\ ZipIdle /\ MlxIdle /\ EngIdle /\ PyIdle /\ CtlIdle

NextZip ==
    \/ LoadArchive
    \/ \E doc \in Bytes : \E out \in SeqsOf(Bytes, 0, 1) : SaveArchive(doc, out)

SpecZip == InitZip /\ [][NextZip]_vars

----------------------------------------------------------------------------
(* C9, C10: archive and output builder *)

CodeLineCount(cell) == IF cell.kind = "code" THEN Len(Split(cell.content, NL)) ELSE 0

\* Number of elements the bundle of a code cell holds
BundleSize(cell) ==
    IF cell.kind # "code" \/ ~cell.executionOutputs.present THEN 0
    ELSE Len(cell.executionOutputs.outputs)
         + (IF cell.executionOutputs.hasFigures THEN Len(cell.executionOutputs.figures) ELSE 0)
         + (IF cell.executionOutputs.text # <<>> THEN 1 ELSE 0)

RECURSIVE SumBefore(_, _, _)
SumBefore(F(_), cs, i) == IF i <= 1 THEN 0 ELSE SumBefore(F, cs, i - 1) + F(cs[i - 1])

\* C10: a code cell of N lines owns N consecutive regions, the first N-1
\* empty and the last listing the indices of the elements of its bundle (none
\* without a bundle); markup cells add no element and no region, so there
\* are as many regions as code lines.
C10_RegionsPerLine ==
    outXml.built =>
        /\ Len(outXml.regionArray) = SumBefore(CodeLineCount, outCells, Len(outCells) + 1)
        /\ Len(outXml.outputArray) = SumBefore(BundleSize, outCells, Len(outCells) + 1)
        /\ \A i \in 1..Len(outCells) :
              outCells[i].kind = "code" =>
                  LET r0 == SumBefore(CodeLineCount, outCells, i)
                      e0 == SumBefore(BundleSize, outCells, i)
                      N == CodeLineCount(outCells[i])
                  IN  /\ N >= 1
                      /\ \A j \in 1..N - 1 : outXml.regionArray[r0 + j] = <<>>
                      /\ outXml.regionArray[r0 + N]
                         = [n \in 1..BundleSize(outCells[i]) |-> e0 + n - 1]

C10_Witness ==
    /\ outXml.built
    /\ Len(outCells) = 1
    /\ CodeLineCount(outCells[1]) = 3
    /\ outCells[1].executionOutputs = Bundle(<<VarX, VarM>>, FALSE, <<>>, <<>>)
    /\ outXml.regionArray = <<<<>>, <<>>, <<0, 1>>>>
    /\ Len(outXml.outputArray) = 2

----------------------------------------------------------------------------
(* The engine: CliBackend start, execute, stop, the timers and the events *)
(* of the MATLAB processes                                               *)

OtherVars == <<docVars, outVars, zipVars, mlxVars, pyVars, ctlVars>>

\* The calls whose code draws a figure
FigureCodes == {1}

\* stdin.write on the process k: nothing reaches a process that has exited
stdinWrite(ch, k, command) ==
    IF ch[k].state = "alive" THEN [ch EXCEPT ![k].stdin = Append(@, command)] ELSE ch

\* kill() on the process k
killed(ch, k) ==
    IF k # 0 /\ ch[k].state = "alive" THEN [ch EXCEPT ![k].state = "dead"] ELSE ch

\* Mutant of Start's guard: a start() in flight blocks the next one
startGuardInFlight == ~running /\ \A k \in 1..MaxStarts : starts[k].promise # "pending"

\* if (this.running) return
startGuard == ~running

\* start(): spawn, the listeners, the startup timer
Start ==
    /\ startGuard
    /\ \E k \in 1..MaxStarts :
          /\ child[k].state = "none"
          /\ \A j \in 1..k - 1 : child[j].state # "none"
          /\ process' = k
          /\ child' = [child EXCEPT ![k].state = "alive"]
          /\ starts' = [starts EXCEPT ![k] = StartCall("pending", TRUE, FALSE, FALSE, TRUE)]
    /\ UNCHANGED <<running, ready, stopTimer, calls, figureDir, OtherVars>>

\* The process k prints its first prompt; onData of its start() writes the
\* initialization command to this.process (a TypeError when it is null)
Prompt(k) ==
    /\ child[k].state = "alive"
    /\ ~child[k].prompted
    /\ starts' = [starts EXCEPT ![k].sentInit = @ \/ starts[k].attached]
    /\ child' = IF starts[k].attached /\ ~starts[k].sentInit /\ process # 0
                THEN [stdinWrite(child, process, InitCommand) EXCEPT ![k].prompted = TRUE]
                ELSE [child EXCEPT ![k].prompted = TRUE]
    /\ UNCHANGED <<running, ready, process, stopTimer, calls, figureDir, OtherVars>>

\* onData of start() k with the init sentinel in the buffer: the flags are
\* set, then this.process!.stdout is read (a TypeError when the handle is
\* null), then the promise is resolved
initSeen(st, k) ==
    IF ~st[k].attached \/ st[k].resolved THEN st
    ELSE [st EXCEPT ![k].resolved = TRUE,
                    ![k].attached = (process # k),
                    ![k].promise = IF process = 0 THEN @ ELSE "resolved"]

\* The process k runs the initialization command and prints the init sentinel
RunInit(k) ==
    /\ child[k].state = "alive"
    /\ child[k].prompted
    /\ child[k].stdin # <<>>
    /\ Head(child[k].stdin) = InitCommand
    /\ child' = [child EXCEPT ![k].stdin = Tail(@), ![k].inited = TRUE]
    /\ starts' = initSeen(starts, k)
    /\ running' = IF starts[k].attached /\ ~starts[k].resolved THEN TRUE ELSE running
    /\ ready' = IF starts[k].attached /\ ~starts[k].resolved THEN TRUE ELSE ready
    /\ UNCHANGED <<process, stopTimer, calls, figureDir, OtherVars>>

\* The error event of the process k: it could not be spawned; no close
\* event follows
SpawnError(k) ==
    /\ child[k].state = "alive"
    /\ ~child[k].prompted
    /\ child' = [child EXCEPT ![k].state = "failed"]
    /\ starts' = [starts EXCEPT ![k].promise = IF ~starts[k].resolved /\ @ = "pending"
                                                THEN "rejected" ELSE @]
    /\ UNCHANGED <<running, ready, process, stopTimer, calls, figureDir, OtherVars>>

\* The startup timer of start() k
StartTimeout(k) ==
    /\ starts[k].timer
    /\ starts' = [starts EXCEPT ![k].timer = FALSE,
                                ![k].resolved = TRUE,
                                ![k].promise = IF ~starts[k].resolved /\ @ = "pending"
                                               THEN "rejected" ELSE @]
    /\ child' = IF starts[k].resolved THEN child ELSE killed(child, process)
    /\ UNCHANGED <<running, ready, process, stopTimer, calls, figureDir, OtherVars>>

\* The started check of execute
executeGuard == running /\ ready /\ process # 0

\* execute(code): the started check, then the figure directory is emptied,
\* the listeners are attached, the code is written and the timer set
Execute(c) ==
    /\ calls[c].promise = "none"
    /\ \A b \in 1..c - 1 : calls[b].promise # "none"
    /\ IF ~executeGuard
       THEN /\ calls' = [calls EXCEPT ![c] = Call("refused", FALSE, FALSE, 0)]
            /\ UNCHANGED <<child, figureDir>>
       ELSE /\ calls' = [calls EXCEPT ![c] = Call("pending", FALSE, TRUE, process)]
            /\ child' = stdinWrite(child, process, CodeCommand(c))
            /\ figureDir' = {}
    /\ UNCHANGED <<running, ready, process, starts, stopTimer, OtherVars>>

\* finish() and the timer callback after done is set: both read
\* this.process!.stdout, which throws when the handle is null, before the
\* promise is settled; the listener is removed from the stdout of
\* this.process
settle(call, outcome) ==
    IF process = 0 THEN [call EXCEPT !.done = TRUE]
    ELSE [call EXCEPT !.done = TRUE,
                      !.promise = outcome,
                      !.listening = IF @ = process THEN 0 ELSE @]

\* onStdout of the call d with the output and the sentinel of the code of
\* the call c: the output goes to the buffer, and the own sentinel finishes
\* the call with the buffer and the files of figureDir
heard(call, d, c, dir) ==
    IF d # c \/ call.done THEN [call EXCEPT !.buffer = @ \cup {c}]
    ELSE [settle(call, "resolved") EXCEPT
              !.buffer = @ \cup {c},
              !.stdout = IF process = 0 THEN @ ELSE call.buffer \cup {c},
              !.figures = IF process = 0 THEN @ ELSE dir]

figuresAfter(c) == IF c \in FigureCodes THEN {c} ELSE figureDir

\* The process that has the code of the call c next on its stdin runs it:
\* it writes the figure files, then prints the output and the sentinel
Sentinel(c) ==
    \E k \in 1..MaxStarts :
        /\ child[k].state = "alive"
        /\ child[k].prompted
        /\ child[k].stdin # <<>>
        /\ Head(child[k].stdin) = CodeCommand(c)
        /\ child' = [child EXCEPT ![k].stdin = Tail(@)]
        /\ figureDir' = figuresAfter(c)
        /\ calls' = [d \in 1..MaxCalls |->
                        IF calls[d].listening = k THEN heard(calls[d], d, c, figuresAfter(c))
                        ELSE calls[d]]
        /\ UNCHANGED <<running, ready, process, starts, stopTimer, OtherVars>>

\* The timer of the call fires
Timeout(c) ==
    /\ calls[c].timer
    /\ calls' = [calls EXCEPT ![c] =
                    IF calls[c].done THEN [calls[c] EXCEPT !.timer = FALSE]
                    ELSE [settle(calls[c], "rejected") EXCEPT !.timer = FALSE]]
    /\ UNCHANGED <<running, ready, process, child, starts, stopTimer, figureDir, OtherVars>>

\* The process k exits: by itself or on the exit command of stop()
Exit(k) ==
    /\ child[k].state = "alive"
    /\ child' = [child EXCEPT ![k].state = "dead"]
    /\ UNCHANGED <<running, ready, process, starts, stopTimer, calls, figureDir, OtherVars>>

\* The close event of the process k, handled by the listener of start() k
Close(k) ==
    /\ child[k].state = "dead"
    /\ child' = [child EXCEPT ![k].state = "closed"]
    /\ running' = FALSE
    /\ ready' = FALSE
    /\ process' = 0
    /\ starts' = [starts EXCEPT ![k].promise = IF ~starts[k].resolved /\ @ = "pending"
                                                THEN "rejected" ELSE @]
    /\ UNCHANGED <<stopTimer, calls, figureDir, OtherVars>>

\* stop(): with a handle, exit is written and the kill timer set
Stop ==
    /\ running \/ (process # 0 /\ process \notin stopTimer)
    /\ stopTimer' = IF process # 0 THEN stopTimer \cup {process} ELSE stopTimer
    /\ child' = IF process # 0 THEN [child EXCEPT ![process].stopped = TRUE] ELSE child
    /\ running' = FALSE
    /\ ready' = FALSE
    /\ UNCHANGED <<process, starts, calls, figureDir, OtherVars>>

\* The kill timer that the stop() of the process k set: this.process is
\* killed and the handle cleared
StopKill(k) ==
    /\ k \in stopTimer
    /\ stopTimer' = stopTimer \ {k}
    /\ child' = killed(child, process)
    /\ process' = 0
    /\ UNCHANGED <<running, ready, starts, calls, figureDir, OtherVars>>

InitEng == DocIdle /\ OutIdle /\ ZipIdle /\ MlxIdle /\ EngIdle /\ PyIdle /\ CtlIdle

NextEng ==
    \/ Start
    \/ Stop
    \/ \E k \in 1..MaxStarts : Prompt(k)
    \/ \E k \in 1..MaxStarts : RunInit(k)
    \/ \E k \in 1..MaxStarts : SpawnError(k)
    \/ \E k \in 1..MaxStarts : StartTimeout(k)
    \/ \E k \in 1..MaxStarts : Exit(k)
    \/ \E k \in 1..MaxStarts : Close(k)
    \/ \E k \in 1..MaxStarts : StopKill(k)
    \/ \E c \in 1..MaxCalls : Execute(c)
    \/ \E c \in 1..MaxCalls : Sentinel(c)
    \/ \E c \in 1..MaxCalls : Timeout(c)

\* A timer that is set fires
SpecEng == InitEng /\ [][NextEng]_vars /\ \A c \in 1..MaxCalls : WF_vars(Timeout(c))

----------------------------------------------------------------------------
(* The engine: PythonEngine start, execute, stop and the bridge process *)

PyOther == <<docVars, outVars, zipVars, mlxVars, engVars, ctlVars>>

\* start(): if (this.running) return; one bridge process per engine object
PyStart ==
    /\ ~pyRunning
    /\ pyChild = "none"
    /\ pyProcess' = 1
    /\ pyChild' = "alive"
    /\ pyStart' = PyStartCall("pending", FALSE, TRUE)
    /\ UNCHANGED <<pyRunning, pyReady, pyStop, pyCalls, PyOther>>

\* onStdout of start() reads the ready message: a promise that the timer
\* rejected stays rejected
PyReadyMessage ==
    /\ pyChild = "alive"
    /\ pyStart.promise # "none"
    /\ ~pyStart.readyReceived
    /\ pyReady' = TRUE
    /\ pyRunning' = TRUE
    /\ pyStart' = [pyStart EXCEPT !.readyReceived = TRUE,
                                  !.promise = IF @ = "pending" THEN "resolved" ELSE @]
    /\ UNCHANGED <<pyProcess, pyChild, pyStop, pyCalls, PyOther>>

\* The startup timer of start(): the promise is rejected, nothing is killed
PyStartTimeout ==
    /\ pyStart.timer
    /\ pyStart' = [pyStart EXCEPT !.timer = FALSE,
                                  !.promise = IF ~pyStart.readyReceived /\ @ = "pending"
                                              THEN "rejected" ELSE @]
    /\ UNCHANGED <<pyRunning, pyReady, pyProcess, pyChild, pyStop, pyCalls, PyOther>>

\* The started check of PythonEngine.execute
pyExecuteGuard == pyRunning /\ pyReady /\ pyProcess # 0

\* execute(code): the started check, then the listener, the write, the timer
PyExecute(c) ==
    /\ pyCalls[c].promise = "none"
    /\ \A b \in 1..c - 1 : pyCalls[b].promise # "none"
    /\ pyCalls' = [pyCalls EXCEPT ![c] = IF pyExecuteGuard THEN PyCall("pending", TRUE, FALSE, TRUE)
                                          ELSE PyCall("refused", FALSE, FALSE, FALSE)]
    /\ UNCHANGED <<pyRunning, pyReady, pyProcess, pyChild, pyStart, pyStop, PyOther>>

\* A result line of the bridge: every onStdout that is attached reads it,
\* removes itself from this.process.stdout and resolves its call
PyResult ==
    /\ pyChild = "alive"
    /\ \E c \in 1..MaxCalls : pyCalls[c].listening
    /\ pyCalls' = [c \in 1..MaxCalls |->
                      IF pyCalls[c].listening
                      THEN [pyCalls[c] EXCEPT !.resultReceived = TRUE,
                                              !.listening = (pyProcess = 0),
                                              !.promise = IF pyProcess # 0 /\ @ = "pending"
                                                          THEN "resolved" ELSE @]
                      ELSE pyCalls[c]]
    /\ UNCHANGED <<pyRunning, pyReady, pyProcess, pyChild, pyStart, pyStop, PyOther>>

\* The timer of a call of execute
PyTimeout(c) ==
    /\ pyCalls[c].timer
    /\ pyCalls' = [pyCalls EXCEPT ![c] =
                      IF pyCalls[c].resultReceived \/ pyProcess = 0
                      THEN [pyCalls[c] EXCEPT !.timer = FALSE]
                      ELSE [pyCalls[c] EXCEPT !.timer = FALSE,
                                              !.listening = FALSE,
                                              !.promise = IF @ = "pending" THEN "rejected" ELSE @]]
    /\ UNCHANGED <<pyRunning, pyReady, pyProcess, pyChild, pyStart, pyStop, PyOther>>

\* The bridge process exits: by itself or on the quit command of stop()
PyExit ==
    /\ pyChild = "alive"
    /\ pyChild' = "dead"
    /\ UNCHANGED <<pyRunning, pyReady, pyProcess, pyStart, pyStop, pyCalls, PyOther>>

\* The close event: onClose of start() rejects when no ready message was
\* read; onClose of a stop() in flight clears the flags and the handle
PyClose ==
    /\ pyChild = "dead"
    /\ pyChild' = "closed"
    /\ pyStart' = [pyStart EXCEPT !.promise = IF ~pyStart.readyReceived /\ @ = "pending"
                                              THEN "rejected" ELSE @]
    /\ pyRunning' = IF pyStop.listening THEN FALSE ELSE pyRunning
    /\ pyReady' = IF pyStop.listening THEN FALSE ELSE pyReady
    /\ pyProcess' = IF pyStop.listening THEN 0 ELSE pyProcess
    /\ pyStop' = IF pyStop.listening THEN PyStopCall("resolved", FALSE, pyStop.timer) ELSE pyStop
    /\ UNCHANGED <<pyCalls, PyOther>>

\* stop(): returns at once unless running with a handle; else the close
\* listener, the quit command and the kill timer
PyStop ==
    /\ pyStop.promise = "none"
    /\ pyRunning
    /\ pyProcess # 0
    /\ pyStop' = PyStopCall("pending", TRUE, TRUE)
    /\ UNCHANGED <<pyRunning, pyReady, pyProcess, pyChild, pyStart, pyCalls, PyOther>>

\* The kill timer of stop(): the process is killed when there is a handle,
\* and onClose runs
PyStopTimeout ==
    /\ pyStop.timer
    /\ pyChild' = IF pyProcess # 0 /\ pyChild = "alive" THEN "dead" ELSE pyChild
    /\ pyRunning' = FALSE
    /\ pyReady' = FALSE
    /\ pyProcess' = 0
    /\ pyStop' = PyStopCall("resolved", pyStop.listening, FALSE)
    /\ UNCHANGED <<pyStart, pyCalls, PyOther>>

InitPy == DocIdle /\ OutIdle /\ ZipIdle /\ MlxIdle /\ EngIdle /\ PyIdle /\ CtlIdle

NextPy ==
    \/ PyStart
    \/ PyReadyMessage
    \/ PyStartTimeout
    \/ PyExit
    \/ PyClose
    \/ PyStop
    \/ PyStopTimeout
    \/ PyResult
    \/ \E c \in 1..MaxCalls : PyExecute(c)
    \/ \E c \in 1..MaxCalls : PyTimeout(c)

SpecPy == InitPy /\ [][NextPy]_vars

----------------------------------------------------------------------------
(* The notebook controller of extension.ts: the execute handler, the engine *)
(* variable and deactivate(); the engines behind the MatlabEngine interface *)

CtlOther == <<docVars, outVars, zipVars, mlxVars, engVars, pyVars>>

\* engine.isRunning() of the engine object e
engineIsRunning(e) == engines[e].state = "ready"

\* Mutant of needsEngine: an engine that is starting is waited for
needsEngineUnlessStarting == engine = 0 \/ engines[engine].state \notin {"starting", "ready"}

\* if (!engine || !engine.isRunning())
needsEngine == engine = 0 \/ ~engineIsRunning(engine)

\* The handler up to its first await: with no running engine, createEngine,
\* the assignment to engine and start(); the invocation h creates the object h
HandlerBegin(h) ==
    /\ ~deactivated
    /\ handlers[h].pc = "idle"
    /\ IF needsEngine
       THEN /\ engine' = h
            /\ engines' = [engines EXCEPT ![h] = Engine("starting", "pending")]
            /\ handlers' = [handlers EXCEPT ![h].pc = "starting"]
       ELSE /\ handlers' = [handlers EXCEPT ![h].pc = "execute"]
            /\ UNCHANGED <<engine, engines>>
    /\ UNCHANGED <<deactivated, CtlOther>>

\* start() of the engine object e resolves
EngineReady(e) ==
    /\ engines[e].state = "starting"
    /\ engines' = [engines EXCEPT ![e] = Engine("ready", "resolved")]
    /\ UNCHANGED <<engine, handlers, deactivated, CtlOther>>

\* start() of the engine object e rejects: its process is gone
EngineStartFails(e) ==
    /\ engines[e].start = "pending"
    /\ engines' = [engines EXCEPT ![e] = Engine(IF @.state = "starting" THEN "failed" ELSE @.state,
                                                "rejected")]
    /\ UNCHANGED <<engine, handlers, deactivated, CtlOther>>

\* The process of a ready engine closes
EngineClose(e) ==
    /\ engines[e].state = "ready"
    /\ engines' = [engines EXCEPT ![e].state = "closed"]
    /\ UNCHANGED <<engine, handlers, deactivated, CtlOther>>

\* await engine.start() returns to the handler, or throws into its catch
HandlerStarted(h) ==
    /\ handlers[h].pc = "starting"
    /\ engines[h].start \in {"resolved", "rejected"}
    /\ handlers' = [handlers EXCEPT ![h].pc = IF engines[h].start = "resolved" THEN "execute"
                                               ELSE "failed"]
    /\ UNCHANGED <<engine, engines, deactivated, CtlOther>>

\* engine.execute(...) on the engine variable as it is now: a TypeError when
\* it is undefined, the not-started error when that engine is not running
HandlerExecute(h) ==
    /\ handlers[h].pc = "execute"
    /\ handlers' = [handlers EXCEPT ![h] =
                       IF engine # 0 /\ engineIsRunning(engine) THEN Handler("executing", engine)
                       ELSE Handler("failed", engine)]
    /\ UNCHANGED <<engine, engines, deactivated, CtlOther>>

\* The result of engine.execute arrives
HandlerResult(h) ==
    /\ handlers[h].pc = "executing"
    /\ engines[handlers[h].on].state = "ready"
    /\ handlers' = [handlers EXCEPT ![h].pc = "done"]
    /\ UNCHANGED <<engine, engines, deactivated, CtlOther>>

\* deactivate(): the engine of the engine variable is stopped, the variable cleared
Deactivate ==
    /\ ~deactivated
    /\ deactivated' = TRUE
    /\ engine' = 0
    /\ engines' = IF engine # 0 /\ engines[engine].state \in {"starting", "ready"}
                  THEN [engines EXCEPT ![engine].state = "stopped"]
                  ELSE engines
    /\ UNCHANGED <<handlers, CtlOther>>

InitCtl == DocIdle /\ OutIdle /\ ZipIdle /\ MlxIdle /\ EngIdle /\ PyIdle /\ CtlIdle

NextCtl ==
    \/ Deactivate
    \/ \E h \in 1..MaxHandlers : HandlerBegin(h)
    \/ \E h \in 1..MaxHandlers : HandlerStarted(h)
    \/ \E h \in 1..MaxHandlers : HandlerExecute(h)
    \/ \E h \in 1..MaxHandlers : HandlerResult(h)
    \/ \E e \in 1..MaxHandlers : EngineReady(e)
    \/ \E e \in 1..MaxHandlers : EngineStartFails(e)
    \/ \E e \in 1..MaxHandlers : EngineClose(e)

SpecCtl == InitCtl /\ [][NextCtl]_vars

----------------------------------------------------------------------------
(* parseMlx on its own *)

MaxMlxParas == 4   \* paragraphs of a document with cached outputs
MaxRegions == 3    \* regions of an output entry

MlxParas ==
    {buildSectionBreak,
     Para("code", FALSE, "", <<Run(FALSE, FALSE, TNode(FALSE, Cdata(<<"a">>)))>>),
     Para("text", FALSE, "", <<Run(FALSE, FALSE, TNode(FALSE, <<"a">>))>>)}

MlxDocs == SeqsOf(MlxParas, 0, MaxMlxParas)

\* The outputArray of the output entries: a variable, a figure, a text
MlxElements ==
    <<ElementXml(variableElement(VarX)), ElementXml(figureElement(<<"f">>)),
      ElementXml(textElement(<<"t">>))>>

RegionVocabulary ==
    {RegionXml(TRUE, <<>>), RegionXml(TRUE, <<<<"0">>>>), RegionXml(TRUE, <<<<"1">>, <<"2">>>>),
     RegionXml(TRUE, <<<<"x">>, <<"7">>>>)}

\* An outputArray whose elements are not as the builder writes them: typed
\* figure or text without the field of that type, without a type, typed
\* matrix, a figure that also has outputData
OddElements ==
    <<[type |-> "figure", outputData |-> <<OutputDataXml(VarX)>>, figureUri |-> <<>>, text |-> <<>>],
      [type |-> "", outputData |-> <<OutputDataXml(VarX)>>, figureUri |-> <<>>, text |-> <<>>],
      [type |-> "matrix", outputData |-> <<OutputDataXml(VarM)>>, figureUri |-> <<>>, text |-> <<>>],
      [type |-> "text", outputData |-> <<>>, figureUri |-> <<>>, text |-> <<>>],
      [type |-> "figure", outputData |-> <<OutputDataXml(VarX)>>, figureUri |-> <<"f">>, text |-> <<>>]>>

\* Regions over OddElements: one bare index, lists out of order, indices
\* that are negative, too large, not numbers, or numbers followed by text
OddRegions ==
    {RegionXml(TRUE, <<<<"0">>>>), RegionXml(TRUE, <<<<"3">>>>), RegionXml(TRUE, <<<<"4">>>>),
     RegionXml(TRUE, <<<<"2">>, <<"1">>>>), RegionXml(TRUE, <<<<"-", "1">>, <<"5">>, <<"1">>>>),
     RegionXml(TRUE, <<<<"x">>, <<"1", "a">>, <<>>>>)}

\* Output entries that cannot be read or parsed, or lack the root or an array
FailingOutFiles ==
    {OutFile(FALSE, FALSE, OutputsXml("", FALSE, <<>>, FALSE, <<>>)),
     OutFile(TRUE, FALSE, OutputsXml("", FALSE, <<>>, FALSE, <<>>)),
     OutFile(TRUE, TRUE, OutputsXml("html", TRUE, MlxElements, TRUE, <<RegionXml(TRUE, <<<<"0">>>>)>>)),
     OutFile(TRUE, TRUE, OutputsXml("embeddedOutputs", FALSE, <<>>, TRUE, <<RegionXml(TRUE, <<<<"0">>>>)>>)),
     OutFile(TRUE, TRUE, OutputsXml("embeddedOutputs", TRUE, MlxElements, FALSE, <<>>))}

OutFiles ==
    FailingOutFiles
    \cup {OutFile(TRUE, TRUE, OutputsXml("outputData", TRUE, MlxElements, TRUE,
                                         <<RegionXml(FALSE, <<>>), RegionXml(TRUE, <<<<"0">>>>)>>))}
    \cup {OutFile(TRUE, TRUE, OutputsXml("embeddedOutputs", TRUE, MlxElements, TRUE, rs)) :
             rs \in SeqsOf(RegionVocabulary, 0, MaxRegions)}
    \cup {OutFile(TRUE, TRUE, OutputsXml("embeddedOutputs", TRUE, OddElements, TRUE, rs)) :
             rs \in SeqsOf(OddRegions, 1, 2)}

MlxArchives ==
    {MlxArchive(TRUE, d, FALSE, NoOutFile) : d \in MlxDocs}
    \cup {MlxArchive(TRUE, d, TRUE, o) : d \in MlxDocs, o \in OutFiles}
    \cup {MlxArchive(FALSE, <<>>, FALSE, NoOutFile)}
    \cup {MlxArchive(FALSE, <<>>, TRUE, o) : o \in FailingOutFiles}
    \cup {MlxArchive(FALSE, <<>>, TRUE,
                     OutFile(TRUE, TRUE, OutputsXml("embeddedOutputs", TRUE, MlxElements, TRUE,
                                                   <<RegionXml(TRUE, <<<<"0">>>>)>>)))}

\* The file handed to deserializeNotebook
ReadArchive ==
    /\ mpc = "idle"
    /\ \E a \in MlxArchives : mlxArchive' = a
    /\ mpc' = "read"
    /\ UNCHANGED <<mlxResult, mlxOutputMap, docVars, outVars, zipVars, engVars, pyVars, ctlVars>>

ParseMlx ==
    /\ mpc = "read"
    /\ mlxResult' = parseMlx(mlxArchive)
    /\ mlxOutputMap' = parsedOutputMap(mlxArchive)
    /\ mpc' = IF parseMlx(mlxArchive).threw THEN "failed" ELSE "parsed"
    /\ UNCHANGED <<mlxArchive, docVars, outVars, zipVars, engVars, pyVars, ctlVars>>

InitMlx == DocIdle /\ OutIdle /\ ZipIdle /\ MlxIdle /\ EngIdle /\ PyIdle /\ CtlIdle

NextMlx ==
    \/ ReadArchive
    \/ ParseMlx

SpecMlx == InitMlx /\ [][NextMlx]_vars

----------------------------------------------------------------------------
(* C11 - C20: reading, failures, the engine *)

\* The paragraphs of a body that parseDocument does not skip
KeptParas(body) == SelectSeq(body, LAMBDA p : ~IsBreakPara(p))

IsCodePara(p) == getStyle(p) = "code"

\* Maximal runs of code and of non-code paragraphs among the first n
RECURSIVE ParaRuns(_, _)
ParaRuns(ps, n) ==
    IF n = 0 THEN 0
    ELSE IF n = 1 THEN 1
    ELSE ParaRuns(ps, n - 1) + (IF IsCodePara(ps[n]) # IsCodePara(ps[n - 1]) THEN 1 ELSE 0)

\* C12: the cell list of a parsed document has no two adjacent cells of one
\* kind: there is one cell per maximal run of code or of non-code paragraphs,
\* whose lines are the texts of the paragraphs of the run, in order.
C12_NoAdjacentSameKind ==
    (pc = "open" /\ origin = "file") =>
        LET ps == KeptParas(docXml)
        IN  /\ \A i \in 2..Len(cells) : cells[i].kind # cells[i - 1].kind
            /\ Len(cells) = ParaRuns(ps, Len(ps))
            /\ \A k \in 1..Len(ps) :
                  LET cell == cells[ParaRuns(ps, k)]
                  IN  /\ cell.kind = (IF IsCodePara(ps[k]) THEN "code" ELSE "markup")
                      /\ Concat([i \in 1..Len(cells) |-> Lines(cells[i])])[k]
                         = (IF IsCodePara(ps[k]) THEN extractCode(ps[k]) ELSE markupLine(ps[k]))

C12_Witness ==
    /\ pc = "open"
    /\ origin = "file"
    /\ Len(docXml) = 3
    /\ IsCodePara(docXml[1]) /\ IsCodePara(docXml[2]) /\ ~IsCodePara(docXml[3])
    /\ ~IsBreakPara(docXml[3])
    /\ Kinds(cells) = <<"code", "markup">>
    /\ Len(Lines(cells[1])) = 2

\* C15: a document whose root cannot be parsed or is not w:document is
\* reported as a failure of the parse, not as a document without cells.
C15_StructuralFailure ==
    (origin = "file" /\ docRoot.root # DocumentRoot) => pc = "failed"

\* C16: a document without body, or whose body has no paragraphs, is parsed
\* to the empty cell list without an error.
C16_EmptyDocument ==
    (origin = "file" /\ docRoot.root = DocumentRoot /\ (~docRoot.hasBody \/ docXml = <<>>))
    => (pc # "failed" /\ cells = <<>>)

C16_Witness ==
    /\ pc = "open"
    /\ origin = "file"
    /\ docRoot = XmlRoot(DocumentRoot, FALSE)
    /\ cells = <<>>

\* C17: a run whose text node is present but empty (bare, with attributes
\* only, or holding an empty CDATA section) contributes the empty string,
\* and the empty code line the builder writes parses back to an empty line.
C17_EmptyTextNode ==
    /\ (/\ pc = "open"
        /\ origin = "file"
        /\ Len(docXml) = 1
        /\ ~IsBreakPara(docXml[1])
        /\ Len(docXml[1].runs) = 1
        /\ docXml[1].runs[1].t.present
        /\ docXml[1].runs[1].t.raw \in {<<>>, Cdata(<<>>)})
       => (Len(cells) = 1 /\ cells[1].content = prefixLine(getStyle(docXml[1]), <<>>))
    /\ (pc = "reopened" /\ cells = <<Cell("code", <<>>)>>) => roundTrip = cells

\* A token written back: wrapped in '**' when bold and in '*' when italic
RenderToken(run) ==
    IF run.bold THEN Bold(run.content)
    ELSE IF run.italic THEN Italic(run.content)
    ELSE run.content

RenderTokens(runs) == Concat([n \in 1..Len(runs) |-> RenderToken(runs[n])])

\* C19: the tokens of parseMarkdownRuns written back in order give the line
\* again, for every line of a markup cell.
C19_TokenizerLosesNoText ==
    (pc = "saved" /\ Len(cells) = 1 /\ cells[1].kind = "markup")
    => \A j \in 1..Len(Lines(cells[1])) :
           RenderTokens(parseMarkdownRuns(Lines(cells[1])[j])) = Lines(cells[1])[j]

\* The variables, figures and text of the regions r0 .. r0 + n - 1 of a map
RECURSIVE SpanOutputs(_, _, _)
SpanOutputs(map, r0, n) ==
    IF n = 0 THEN [variables |-> <<>>, figures |-> <<>>, text |-> <<>>]
    ELSE LET before == SpanOutputs(map, r0, n - 1)
             r == r0 + n - 1
         IN  IF r \in DOMAIN map
             THEN [variables |-> before.variables \o map[r].variables,
                   figures |-> before.figures \o map[r].figures,
                   text |-> before.text \o map[r].text]
             ELSE before

\* C11: the i-th code cell of N lines is given the outputs of the N regions
\* that start at the number of code lines before it, all of them, in region
\* order; a markup cell is given nothing and moves no counter.
C11_SharedRegionCounter ==
    (/\ mpc = "parsed"
     /\ mlxArchive.hasOut
     /\ mlxArchive.out.readable
     /\ mlxArchive.out.parses)
    => \A i \in 1..Len(mlxResult.cells) :
          LET cell == mlxResult.cells[i]
              given == SpanOutputs(parseOutputs(mlxArchive.out.xml),
                                   SumBefore(CodeLineCount, mlxResult.cells, i),
                                   CodeLineCount(cell))
          IN  /\ cell.outputs = given.variables
              /\ cell.figures = given.figures
              /\ cell.textOutput = Join(given.text, <<NL>>)
              /\ cell.kind = "markup" => (cell.outputs = <<>> /\ cell.figures = <<>>)

C11_Witness ==
    /\ mpc = "parsed"
    /\ mlxArchive.hasOut
    /\ mlxArchive.out.xml.regionArray.element
       = <<RegionXml(TRUE, <<<<"0">>>>), RegionXml(TRUE, <<>>), RegionXml(TRUE, <<<<"1">>, <<"2">>>>)>>
    /\ Kinds(mlxResult.cells) = <<"code", "markup", "code">>
    /\ CodeLineCount(mlxResult.cells[1]) = 2
    /\ Len(mlxResult.cells[1].outputs) = 1
    /\ mlxResult.cells[1].figures = <<>>
    /\ Len(mlxResult.cells[3].figures) = 1
    /\ mlxResult.cells[3].textOutput = <<"t">>

\* C13: without the document entry parseMlx throws an error that names the
\* entry and returns no cells, whatever the output entry is.
C13_MissingDocumentEntry ==
    (mpc \in {"parsed", "failed"} /\ ~mlxArchive.hasDoc)
    => /\ mpc = "failed"
       /\ mlxResult.threw
       /\ \E k \in 1..Len(mlxResult.error) : mlxResult.error[k] = DocumentEntry
       /\ mlxResult.cells = <<>>

C13_Witness ==
    /\ mpc = "failed"
    /\ ~mlxArchive.hasDoc
    /\ mlxArchive.hasOut
    /\ mlxArchive.out.readable /\ mlxArchive.out.parses
    /\ mlxArchive.out.xml.root = "embeddedOutputs"
    /\ mlxResult.error = MissingDocumentError

\* An output entry that cannot be read or parsed, or lacks the root or an array
OutputFails(out) ==
    \/ ~out.readable
    \/ ~out.parses
    \/ out.xml.root \notin {"embeddedOutputs", "outputData"}
    \/ ~out.xml.outputArray.present
    \/ ~out.xml.regionArray.present

\* C14: when the output entry fails, parseMlx returns the cells of the
\* document as parseDocument gave them, none with an output.
C14_OutputsBestEffort ==
    (/\ mpc \in {"parsed", "failed"}
     /\ mlxArchive.hasDoc
     /\ mlxArchive.hasOut
     /\ OutputFails(mlxArchive.out))
    => /\ mpc = "parsed"
       /\ ~mlxResult.threw
       /\ SameCells(mlxResult.cells, parseDocument(mlxArchive.doc))
       /\ \A i \in 1..Len(mlxResult.cells) :
             /\ mlxResult.cells[i].outputs = <<>>
             /\ mlxResult.cells[i].figures = <<>>
             /\ mlxResult.cells[i].textOutput = <<>>

C14_Witness ==
    /\ mpc = "parsed"
    /\ mlxArchive.hasDoc
    /\ mlxArchive.hasOut
    /\ mlxArchive.out.readable /\ ~mlxArchive.out.parses
    /\ Kinds(mlxResult.cells) = <<"code", "markup">>

\* C18: a call of execute that passed the started check settles: its
\* promise is resolved or rejected in the end.
C18_ExecuteSettles ==
    \A c \in 1..MaxCalls :
        (calls[c].promise = "pending") ~> (calls[c].promise \in {"resolved", "rejected"})

NamesAndValues(outputs) ==
    [n \in 1..Len(outputs) |-> [name |-> outputs[n].name, value |-> outputs[n].value]]

\* The figures of the bundle of a cell
BundleFigures(eo) == IF eo.present /\ eo.hasFigures THEN eo.figures ELSE <<>>

\* C20: a code cell read back from the built output document has the
\* variables of its own bundle (names and values, in order), as many figures
\* and the same text; a cell without bundle, and a markup cell, has none.
C20_OutputRoundTrip ==
    readBack.done =>
        /\ Len(readBack.cells) = Len(outCells)
        /\ \A i \in 1..Len(outCells) :
              IF outCells[i].kind = "code"
              THEN /\ NamesAndValues(readBack.cells[i].outputs)
                      = NamesAndValues(outCells[i].executionOutputs.outputs)
                   /\ Len(readBack.cells[i].figures) = Len(BundleFigures(outCells[i].executionOutputs))
                   /\ readBack.cells[i].textOutput = outCells[i].executionOutputs.text
              ELSE /\ readBack.cells[i].outputs = <<>>
                   /\ readBack.cells[i].figures = <<>>
                   /\ readBack.cells[i].textOutput = <<>>

----------------------------------------------------------------------------
(* C21 - C30: section breaks, heading prefixes, output indices, the engine *)

\* C22: a paragraph that holds only a section break (no style, no runs)
\* contributes nothing: the cells of a document are the cells of the same
\* document without these paragraphs, so such a paragraph neither ends a
\* pending markup cell nor separates the code paragraphs around it.
C22_SectionBreakContributesNothing ==
    (pc = "open" /\ origin = "file") => cells = parseDocument(KeptParas(docXml))

C22_Witness ==
    /\ pc = "open"
    /\ origin = "file"
    /\ Len(docXml) = 3
    /\ IsBreakPara(docXml[2])
    /\ \/ IsCodePara(docXml[1]) /\ IsCodePara(docXml[3]) /\ Kinds(cells) = <<"code">>
       \/ /\ ~IsCodePara(docXml[1]) /\ ~IsBreakPara(docXml[1])
          /\ ~IsCodePara(docXml[3]) /\ ~IsBreakPara(docXml[3])
          /\ Kinds(cells) = <<"markup">>
    /\ Len(Lines(cells[1])) = 2

\* Length of the heading prefix a markup line starts with, 0 without one
HeadingPrefixLen(line) ==
    IF IsPrefix(<<"#", " ">>, line) THEN 2
    ELSE IF IsPrefix(<<"#", "#", " ">>, line) THEN 3
    ELSE IF IsPrefix(<<"#", "#", "#", " ">>, line) THEN 4
    ELSE 0

\* C23: for a markup line that starts with '# ', '## ' or '### ' the
\* paragraph written is the paragraph of the line without that prefix and
\* with nothing else removed: whitespace that follows the prefix is kept.
C23_OnlyPrefixRemoved ==
    Built =>
        \A i \in 1..Len(cells) :
            cells[i].kind = "markup" =>
                \A j \in 1..Len(Lines(cells[i])) :
                    LET line == Lines(cells[i])[j]
                        n == HeadingPrefixLen(line)
                    IN  (n > 0 /\ ~IsBlank(line)) =>
                            builtXml[ParaIndex(cells, i, j)].runs
                            = buildParagraph(Drop(line, n), PrefixStyle(line), FALSE).runs

\* parseMlx got a map from parseOutputs: the output entry was read and has a
\* root and an element array
OutputsRead ==
    /\ mpc = "parsed"
    /\ mlxArchive.hasOut /\ mlxArchive.out.readable /\ mlxArchive.out.parses
    /\ mlxArchive.out.xml.root \in {"embeddedOutputs", "outputData"}
    /\ mlxArchive.out.xml.outputArray.present
    /\ mlxArchive.out.xml.outputArray.element # <<>>

ReadElements == mlxArchive.out.xml.outputArray.element

ReadRegions ==
    IF mlxArchive.out.xml.regionArray.present THEN mlxArchive.out.xml.regionArray.element ELSE <<>>

\* Text that starts, after whitespace and a sign, with a digit
IntegerText(t) ==
    LET u == TrimStart(t)
        d == IF u # <<>> /\ u[1] \in {"-", "+"} THEN Tail(u) ELSE u
    IN  d # <<>> /\ IsDigit(d[1])

\* The integer such a text stands for
IntegerOf(t) ==
    LET u == TrimStart(t)
    IN  IF u[1] = "-" THEN 0 - DigitsValue(Tail(u), 0)
        ELSE IF u[1] = "+" THEN DigitsValue(Tail(u), 0)
        ELSE DigitsValue(u, 0)

\* The entries of a region's index list that stand for an index of the
\* element array, in the order in which they are listed
ValidEntries(region) ==
    IF ~region.outputIndexes.present THEN <<>>
    ELSE SelectSeq(region.outputIndexes.element,
                   LAMBDA t : IntegerText(t) /\ IntegerOf(t) >= 0
                              /\ IntegerOf(t) < Len(ReadElements))

\* The elements region k refers to
Referred(k) ==
    [n \in 1..Len(ValidEntries(ReadRegions[k + 1])) |->
        ReadElements[IntegerOf(ValidEntries(ReadRegions[k + 1])[n]) + 1]]

TypedFigure(el) == el.type = "figure"
TypedText(el) == el.type = "text"

\* C24: the elements a region refers to are partitioned by their type tag:
\* the figures come from the elements typed figure, the text from the
\* elements typed text, the variables from all other elements and from no
\* element typed figure or text; the map has an entry for a region exactly
\* when one of the three is not empty.
C24_PartitionByType ==
    OutputsRead =>
        \A k \in 0..Len(ReadRegions) - 1 :
            LET figs == SelectSeq(Referred(k), LAMBDA el : TypedFigure(el) /\ el.figureUri # <<>>)
                txts == SelectSeq(Referred(k), LAMBDA el : TypedText(el) /\ el.text # <<>>)
                vrs == SelectSeq(Referred(k),
                                 LAMBDA el : ~TypedFigure(el) /\ ~TypedText(el) /\ el.outputData # <<>>)
            IN  /\ (k \in DOMAIN mlxOutputMap) <=> (figs # <<>> \/ txts # <<>> \/ vrs # <<>>)
                /\ (k \in DOMAIN mlxOutputMap) =>
                       /\ Len(mlxOutputMap[k].figures) = Len(figs)
                       /\ Len(mlxOutputMap[k].text) = Len(txts)
                       /\ Len(mlxOutputMap[k].variables) = Len(vrs)
                       /\ \A n \in 1..Len(mlxOutputMap[k].variables) :
                              mlxOutputMap[k].variables[n].type \notin {"figure", "text"}

\* C25: parseOutputs reads no element outside the element array: of a
\* region's index list, one entry or several, the entries that are not
\* integers or lie outside 0 .. elementCount - 1 are discarded, and the
\* outputs of the region are those of the elements at the remaining
\* entries, in the order in which the entries are listed.
C25_IndexesInRange ==
    OutputsRead =>
        \A k \in 0..Len(ReadRegions) - 1 :
            IF k \in DOMAIN mlxOutputMap
            THEN mlxOutputMap[k] = regionOutputs(Referred(k))
            ELSE ~hasOutputs(regionOutputs(Referred(k)))

C25_Witness ==
    /\ OutputsRead
    /\ ReadElements = OddElements
    /\ ReadRegions = <<RegionXml(TRUE, <<<<"-", "1">>, <<"5">>, <<"1">>>>),
                       RegionXml(TRUE, <<<<"2">>, <<"1">>>>)>>
    /\ DOMAIN mlxOutputMap = {0, 1}
    /\ [n \in 1..Len(mlxOutputMap[0].variables) |-> mlxOutputMap[0].variables[n].name] = <<<<"x">>>>
    /\ [n \in 1..Len(mlxOutputMap[1].variables) |-> mlxOutputMap[1].variables[n].name]
       = <<<<"m">>, <<"x">>>>

\* n copies of x
Repeat(x, n) == [k \in 1..n |-> x]

\* The type tags a bundle asks for, in the order claimed
BundleTypes(eo) ==
    IF ~eo.present THEN <<>>
    ELSE Repeat("variable", Len(eo.outputs))
         \o Repeat("figure", IF eo.hasFigures THEN Len(eo.figures) ELSE 0)
         \o Repeat("text", IF eo.text # <<>> THEN 1 ELSE 0)

\* C26: the element counter of buildOutputXml starts at 0 and grows by one
\* per element: the indices listed by the regions, read in document order,
\* are 0, 1, .., M-1 for the M elements written, each once, and the elements
\* of one cell are its variables, then its figures, then its text.
C26_ElementCounter ==
    outXml.built =>
        /\ Concat(outXml.regionArray) = [n \in 1..Len(outXml.outputArray) |-> n - 1]
        /\ \A i \in 1..Len(outCells) :
              outCells[i].kind = "code" =>
                  LET last == outXml.regionArray[SumBefore(CodeLineCount, outCells, i + 1)]
                  IN  [n \in 1..Len(last) |-> outXml.outputArray[last[n] + 1].type]
                      = BundleTypes(outCells[i].executionOutputs)

C26_Witness ==
    /\ outXml.built
    /\ Len(outCells) = 2
    /\ outCells[1].kind = "code" /\ outCells[2].kind = "code"
    /\ outCells[1].executionOutputs = Bundle(<<VarX, VarM>>, TRUE, <<<<"f">>>>, <<"t">>)
    /\ outCells[2].executionOutputs = Bundle(<<VarX>>, TRUE, <<<<"f">>>>, <<"t">>)
    /\ Concat(outXml.regionArray) = <<0, 1, 2, 3, 4, 5, 6>>
    /\ [n \in 1..7 |-> outXml.outputArray[n].type]
       = <<"variable", "variable", "figure", "text", "variable", "figure", "text">>

\* isRunning() of CliBackend
isRunning == running /\ ready

\* The commands that wait on the stdin of the process k
Waiting(k) == {child[k].stdin[n] : n \in 1..Len(child[k].stdin)}

\* C21: when calls of execute overlap on one CliBackend, a call that
\* resolves does so with the output and the figures of its own code only.
C21_OwnOutputOnly ==
    \A c \in 1..MaxCalls :
        calls[c].promise = "resolved" => (calls[c].stdout = {c} /\ calls[c].figures \subseteq {c})

C30_StoppedSessionIsolated ==
    [][\A k \in 1..MaxStarts :
          (StopKill(k) \/ (Close(k) /\ child[k].stopped)) => process \in {0, k}]_vars
\* isRunning() of PythonEngine
pyIsRunning == pyRunning /\ pyReady

\* C29: PythonEngine.isRunning() is true only while a bridge process that
\* start() reported ready is alive: it is false once start() has rejected and
\* once the process has closed, and execute() then refuses the call
C29_RunningOnlyWhileAlive ==
    /\ pyIsRunning => pyStart.promise = "resolved" /\ pyChild \in {"alive", "dead"}
    /\ pyStart.promise = "rejected" => ~pyIsRunning
    /\ pyChild = "closed" => ~pyIsRunning /\ ~pyExecuteGuard

\* C29 for CliBackend: isRunning() is true only while a process whose start()
\* resolved has not closed
C29_CliRunningOnlyWhileAlive ==
    isRunning => \E k \in 1..MaxStarts :
                    starts[k].promise = "resolved" /\ child[k].state \in {"alive", "dead"}

\* The engine objects whose process is started and not stopped or gone
StartedEngines == {e \in 1..MaxHandlers : engines[e].state \in {"starting", "ready"}}

\* C28: the controller keeps at most one started engine, and every started
\* engine is the one the engine variable refers to, so deactivate() stops it
C28_OneStartedEngine ==
    /\ Cardinality(StartedEngines) <= 1
    /\ \A e \in StartedEngines : engine = e


====
